---- MODULE Spec2Model ----
(***************************************************************************)
(* State-machine model of the per-camera processing pipeline of            *)
(* LocalPulse/AI-Hackathon: the greedy IoU tracker (services/tracker.py,   *)
(* services/track.py), the detection worker and its single-slot queue      *)
(* (services/pipeline/detection.py), the pipeline driver                   *)
(* (services/pipeline/processor.py) and the cross-process sync store       *)
(* (utils/state_sync.py), and the track processor with the activity log   *)
(* it writes (services/pipeline/track_processing.py; log_activity is the   *)
(* one of web/api/utils/database.py, the only one the repository defines). *)
(*                                                                         *)
(* Python floats are modelled as exact rationals [n |-> Int, d |-> Nat],   *)
(* kept in lowest terms.  Wall-clock time is a counter of seconds.         *)
(***************************************************************************)
EXTENDS Integers, Sequences, FiniteSets, TLC

VARIABLES
    \* ---- Tracker (services/tracker.py) ----
    objs,            \* heap of Track objects: id -> Track record
    tracks,          \* Tracker.tracks: the dict's keys in insertion order
    next_id,         \* TrackManager._next_id
    max_lost,        \* TrackManager.max_lost
    use_prediction,  \* TrackManager.use_prediction
    iou_threshold,   \* Matcher.iou_threshold
    now,             \* time.time(), in seconds
    \* ---- observers of the tracker (history variables) ----
    frame_no,        \* number of Tracker.update calls so far
    inputs,          \* the detection lists fed to Tracker.update so far
    misses,          \* id -> consecutive updates in which the track got no detection
    pre,             \* what the last Tracker.update call started from
    last_mapping,    \* what Matcher.match returned in the last update
    created,         \* ids assigned by create_track in the last update
    deleted,         \* id -> lost_frames at deletion, for the tracks deleted so far
    \* ---- Sync store (utils/state_sync.py) ----
    file,            \* the JSON document of SYNC_FILE: camera id -> camera data
    pending,         \* caller -> the call it is inside, between _read_file and _write_file
    calls,           \* number of store calls begun so far
    stopped_at,      \* camera id -> when its last register_camera_stop completed (history)
    file_kind,       \* what SYNC_FILE is on disk: a JSON object, missing, ...
    attempts,        \* caller -> attempts of its _write_file call that failed so far
    outcome,         \* caller -> how its last call ended (history)
    reader,          \* a get_camera_stats call between its two reads of the file
    answer,          \* what the last read call returned
    started,         \* camera id -> a register_camera_start of it completed, and no
                     \*              start or stop of it began since (history)
    beat_at,         \* camera id -> the time of the heartbeat_camera call that began
                     \*              and completed last after that start, or 0 (history)
    raced,           \* some call completed while another was under way (history)
    \* ---- Pipeline driver (services/pipeline/processor.py) ----
    pipeline_camera_id,  \* Pipeline._camera_id
    max_frames,      \* run(max_frames = ...), 0 for None
    show,            \* run(show = ...)
    pc_driver,       \* where the driver thread is in Pipeline.run
    frame_count,     \* frames read from the source
    d_frame,         \* the frame being submitted
    last_heartbeat_time,
    snap,            \* the list get_tracks returned (ids of the Track objects in it)
    snap_vals,       \* id -> the Track published, for the tracks in snap (history)
    \* ---- Detection worker (services/pipeline/detection.py) ----
    running,         \* DetectionWorker._running
    pc_worker,       \* where the worker thread is in DetectionWorker._loop
    queue_slot,      \* DetectionWorker._queue, maxsize 1
    w_frame,         \* the frame the worker took
    w_tracks,        \* the worker's local list of Track objects
    pub_tracks,      \* DetectionWorker._tracks
    pub_vals,        \* id -> the Track as it was when _tracks was set (history)
    taken,           \* numbers of the frames the worker took from the queue (history)
    filtered,        \* what FrameDetector.filter returned for the worker's frame
    fault,           \* what raised in the worker's last iteration, if anything (history)
    \* ---- Track processor and activity log (services/pipeline/track_processing.py) ----
    logs,            \* the rows of the logs table, oldest first
    last_periodic_log_time,  \* TrackProcessor._last_periodic_log_time
    process_no,      \* number of TrackProcessor.process calls so far (history)
    log_calls,       \* the log_activity calls made so far, oldest first (history)
    seen,            \* id -> the activities a loggable track showed, with the number of
                     \*       the process call that saw each (history)
    flushes,         \* the process calls that flushed periodically, and when (history)
    \* ---- Camera manager (services/camera_manager.py) ----
    argv,            \* the parsed command line of the camera manager
    config_file,     \* what the file named by --config holds
    pc_manager,      \* where the manager process is in main
    loaded,          \* what load_cameras returned
    children,        \* camera id -> the state of the camera process started for it
    exit_code,       \* the exit code of the manager process, -1 while it runs
    \* ---- Web API process (web/api/utils/shared_state.py) ----
    shared_tracks,   \* SharedState._tracks of _shared_state: camera id -> track id -> ActiveTrack
    \* ---- Clothing configuration (services/config.py) ----
    skip_clothing,      \* PipelineConfig.skip_clothing
    clothing_coverage,  \* PipelineConfig.clothing_coverage, in hundredths
    \* ---- Matcher (services/tracker.py) ----
    matcher          \* a Matcher._greedy_match call under way: its position and locals

trackerVars == <<objs, tracks, next_id, max_lost, use_prediction, iou_threshold>>
observerVars == <<frame_no, inputs, misses, pre, last_mapping, created, deleted>>
storeVars == <<file, pending, calls, stopped_at>>
diskVars == <<attempts, outcome>>
readerVars == <<reader, answer>>
beatVars == <<started, beat_at, raced>>
ioVars == <<file_kind, diskVars, readerVars, beatVars>>
driverVars == <<pipeline_camera_id, max_frames, show, pc_driver, frame_count, d_frame,
                last_heartbeat_time, snap, snap_vals>>
workerVars == <<running, pc_worker, queue_slot, w_frame, w_tracks, pub_tracks, pub_vals, taken,
                filtered, fault>>
logVars == <<logs, last_periodic_log_time, process_no, log_calls, seen, flushes>>
managerVars == <<argv, config_file, pc_manager, loaded, children, exit_code>>
apiVars == <<shared_tracks>>
configVars == <<skip_clothing, clothing_coverage>>
matcherVars == <<matcher>>
\* Everything but the camera manager.
pipelineVars == <<trackerVars, observerVars, now, storeVars, driverVars, workerVars, logVars,
                  ioVars, apiVars, configVars, matcherVars>>
vars == <<pipelineVars, managerVars>>

----------------------------------------------------------------------------
(* Bounds of the model.                                                    *)

\* Largest max_lost a tracker is constructed with.
MaxLost == 2
\* Number of Tracker.update calls explored.
MaxFrames == 5
\* The clock starts at StartTime and advances by TickSeconds, MaxTicks times.
StartTime == 60
TickSeconds == 60
MaxTicks == 3
\* Number of sync-store calls explored.
MaxCalls == 3
\* Frames a video source yields at most, and clock ticks during a pipeline run.
MaxPipelineFrames == 2
PipelineTicks == 1
\* Frames fed to a worker on its own, and how many of its first process calls
\* may find the database refusing inserts.
MaxLogFrames == 5
MaxDbFailures == 1
\* Changes of the file between the two reads of one get_camera_stats call.
MaxInterleaved == 1
\* Detections in a frame given to the confidence filter.
MaxFilterLen == 3
\* Frames fed to a worker whose detector and classifier may raise.
MaxFaultFrames == 3
\* Frames in which an object is seen before an occlusion, and frames the
\* occlusion lasts.
SeenFrames == 10
LostFrames == 20
\* Centers in the histories given to the classifier: any, and a walk followed
\* by a stay.
MaxHistoryLen == 4
MaxWalk == 16
MaxStay == 10
\* Rows inserted into the logs table that is queried.
MaxRows == 3

----------------------------------------------------------------------------
(* Exact rational arithmetic for the code's floats.                        *)

Abs(x) == IF x < 0 THEN -x ELSE x

RECURSIVE GCD(_, _)
GCD(a, b) == IF b = 0 THEN a ELSE GCD(b, a % b)

\* n/d with g the greatest common divisor of n and d.
Reduced(n, d, g) ==
    IF d < 0 THEN [n |-> (-n) \div g, d |-> (-d) \div g]
    ELSE [n |-> n \div g, d |-> d \div g]

\* The rational n/d (d # 0) in lowest terms with a positive denominator.
Rat(n, d) == Reduced(n, d, GCD(Abs(n), Abs(d)))

RInt(k) == [n |-> k, d |-> 1]
RZero == RInt(0)

RAddG(a, b, g) == Rat(a.n * (b.d \div g) + b.n * (a.d \div g), (a.d \div g) * b.d)
RAdd(a, b) == RAddG(a, b, GCD(a.d, b.d))

RNeg(a) == [n |-> -a.n, d |-> a.d]
RSub(a, b) == RAdd(a, RNeg(b))

RMulG(a, b, g1, g2) == Rat((a.n \div g1) * (b.n \div g2), (a.d \div g2) * (b.d \div g1))
RMul(a, b) == RMulG(a, b, GCD(Abs(a.n), b.d), GCD(Abs(b.n), a.d))

\* a / b for b > 0.
RDivG(a, b, g1, g2) == Rat((a.n \div g1) * (b.d \div g2), (a.d \div g2) * (b.n \div g1))
RDiv(a, b) == RDivG(a, b, GCD(Abs(a.n), b.n), GCD(a.d, b.d))

\* p/q <= r/s for naturals p, r and positive q, s, by the continued-fraction
\* expansion (no product of two large numbers is formed).
RECURSIVE FracLeq(_, _, _, _)
FracLeq(p, q, r, s) ==
    IF (p \div q) # (r \div s) THEN (p \div q) < (r \div s)
    ELSE IF p % q = 0 THEN TRUE
    ELSE IF r % s = 0 THEN FALSE
    ELSE FracLeq(s, r % s, q, p % q)

RLeq(a, b) ==
    IF a.n <= 0 /\ b.n >= 0 THEN TRUE
    ELSE IF a.n > 0 /\ b.n <= 0 THEN FALSE
    ELSE IF a.n > 0 THEN FracLeq(a.n, a.d, b.n, b.d)
    ELSE FracLeq(-b.n, b.d, -a.n, a.d)

RLess(a, b) == ~RLeq(b, a)
RMax(a, b) == IF RLeq(a, b) THEN b ELSE a
RMin(a, b) == IF RLeq(a, b) THEN a ELSE b

\* Python's int(x): truncation toward zero.
RTrunc(a) == IF a.n >= 0 THEN a.n \div a.d ELSE -((-a.n) \div a.d)

----------------------------------------------------------------------------
(* Geometry (services/tracker.py).  A box is <<x1, y1, x2, y2>>.           *)

\* max(0, hi - lo)
Extent(lo, hi) == RMax(RZero, RSub(hi, lo))

\* inter / union if union > 0 else 0.0
iou_ratio(inter, union) == IF RLess(RZero, union) THEN RDiv(inter, union) ELSE RZero

\* The last two lines of compute_iou, from the three areas.
iou_of_areas(inter, area_a, area_b) == iou_ratio(inter, RSub(RAdd(area_a, area_b), inter))

compute_iou(box_a, box_b) ==
    iou_of_areas(RMul(Extent(RMax(box_a[1], box_b[1]), RMin(box_a[3], box_b[3])),
                      Extent(RMax(box_a[2], box_b[2]), RMin(box_a[4], box_b[4]))),
                 RMul(Extent(box_a[1], box_a[3]), Extent(box_a[2], box_a[4])),
                 RMul(Extent(box_b[1], box_b[3]), Extent(box_b[2], box_b[4])))

----------------------------------------------------------------------------
(* Track (services/track.py).                                              *)

None == "None"

\* Default of add_position's max_history parameter.
max_history == 50
\* update_velocity looks at the last min(5, len(history)) points.
velocity_window == 5

\* Track.center: int((x1 + x2) / 2), int((y1 + y2) / 2).
center(bbox) ==
    <<RTrunc(RMul(RAdd(bbox[1], bbox[3]), Rat(1, 2))),
      RTrunc(RMul(RAdd(bbox[2], bbox[4]), Rat(1, 2)))>>

\* Track.predict_bbox: the box shifted by the velocity.
predict_bbox(t) ==
    <<RAdd(t.bbox[1], t.velocity[1]), RAdd(t.bbox[2], t.velocity[2]),
      RAdd(t.bbox[3], t.velocity[1]), RAdd(t.bbox[4], t.velocity[2])>>

\* An add_position that drops the newest point beyond max_history.
add_position_drop_newest(history, c) ==
    IF Len(history) >= max_history THEN history ELSE Append(history, c)

\* Track.add_position: append, then drop the oldest point beyond max_history.
add_position(history, c) ==
    LET h == Append(history, c)
    IN  IF Len(h) > max_history THEN Tail(h) ELSE h

\* Sum over i in 1..len(pts)-1 (0-based) of weight i times the displacement
\* pts[i] - pts[i-1] along axis ax; pts is 1-based here.
RECURSIVE WeightedDisp(_, _, _)
WeightedDisp(pts, ax, i) ==
    IF i < 1 THEN 0
    ELSE i * (pts[i + 1][ax] - pts[i][ax]) + WeightedDisp(pts, ax, i - 1)

RECURSIVE WeightSum(_)
WeightSum(i) == IF i < 1 THEN 0 ELSE i + WeightSum(i - 1)

\* Track.update_velocity: the velocity computed from a history.
update_velocity(history) ==
    IF Len(history) < 2 THEN <<RZero, RZero>>
    ELSE LET n == IF Len(history) < velocity_window THEN Len(history)
                  ELSE velocity_window
             pts == SubSeq(history, Len(history) - n + 1, Len(history))
             total_w == WeightSum(n - 1)
         IN  IF total_w > 0
             THEN <<Rat(WeightedDisp(pts, 1, n - 1), total_w),
                    Rat(WeightedDisp(pts, 2, n - 1), total_w)>>
             ELSE <<RZero, RZero>>

----------------------------------------------------------------------------
(* Matcher (services/tracker.py).  Detection indices and matrix indices    *)
(* are 1-based here, 0-based in the code.                                  *)

\* A matcher that compares with the last box of every track.
get_track_box_last(t, use_pred) == t.bbox

\* Matcher._get_track_box
get_track_box(t, use_pred) ==
    IF t.lost_frames > 0 /\ use_pred THEN predict_bbox(t) ELSE t.bbox

\* The inner loop of Matcher._build_iou_matrix: the first j cells of the row
\* of detection box det_box.
RECURSIVE iou_row(_, _, _)
iou_row(det_box, track_boxes, j) ==
    IF j = 0 THEN <<>>
    ELSE Append(iou_row(det_box, track_boxes, j - 1), compute_iou(det_box, track_boxes[j]))

\* The outer loop of Matcher._build_iou_matrix: the first i rows.
RECURSIVE iou_rows(_, _, _)
iou_rows(detections, track_boxes, i) ==
    IF i = 0 THEN <<>>
    ELSE Append(iou_rows(detections, track_boxes, i - 1),
                iou_row(detections[i], track_boxes, Len(track_boxes)))

\* Matcher._build_iou_matrix: rows are detections, columns are tracks.
build_iou_matrix(detections, track_boxes) ==
    iou_rows(detections, track_boxes, Len(detections))

\* The matrix flattened in row-major order.
Flat(m, nT) ==
    [k \in 1..(Len(m) * nT) |-> m[((k - 1) \div nT) + 1][((k - 1) % nT) + 1]]

\* A scan that keeps the last largest entry.
RECURSIVE ScanMaxLast(_, _, _)
ScanMaxLast(flat, k, best) ==
    IF k > Len(flat) THEN best
    ELSE ScanMaxLast(flat, k + 1, IF RLeq(flat[best], flat[k]) THEN k ELSE best)

\* numpy argmax: a scan from flat index k on that keeps the first largest entry.
RECURSIVE ScanMax(_, _, _)
ScanMax(flat, k, best) ==
    IF k > Len(flat) THEN best
    ELSE ScanMax(flat, k + 1, IF RLess(flat[best], flat[k]) THEN k ELSE best)

\* np.unravel_index(k, shape) for the flat index k of a matrix with nT columns.
unravel_index(k, nT) == <<((k - 1) \div nT) + 1, ((k - 1) % nT) + 1>>

\* An argmax that looks at the first detection's row only.
argmax_cell_first_row(m, nT) == unravel_index(ScanMax(Flat(<<m[1]>>, nT), 1, 1), nT)

\* np.unravel_index(iou_matrix.argmax(), iou_matrix.shape)
argmax_cell(m, nT) == unravel_index(ScanMax(Flat(m, nT), 1, 1), nT)

\* The while loop of Matcher._greedy_match; mapping is a set of
\* <<detection index, track id>> pairs.  greedy_loop is the loop head (the
\* argmax), greedy_pick the loop body for the cell <<i, j>> it found.
RECURSIVE greedy_loop(_, _, _, _, _, _)
RECURSIVE greedy_pick(_, _, _, _, _, _, _, _)
greedy_pick(m, track_ids, thr, mapping, used_dets, used_tracks, i, j) ==
    IF RLess(m[i][j], thr) THEN mapping
    ELSE IF i \notin used_dets /\ j \notin used_tracks
    THEN greedy_loop([m EXCEPT ![i][j] = RZero], track_ids, thr,
                     mapping \cup {<<i, track_ids[j]>>},
                     used_dets \cup {i}, used_tracks \cup {j})
    ELSE greedy_loop([m EXCEPT ![i][j] = RZero], track_ids, thr,
                     mapping, used_dets, used_tracks)

greedy_cell(m, track_ids, thr, mapping, used_dets, used_tracks, c) ==
    greedy_pick(m, track_ids, thr, mapping, used_dets, used_tracks, c[1], c[2])

greedy_loop(m, track_ids, thr, mapping, used_dets, used_tracks) ==
    greedy_cell(m, track_ids, thr, mapping, used_dets, used_tracks,
                argmax_cell(m, Len(track_ids)))

\* Matcher._greedy_match
greedy_match(m, track_ids, thr) == greedy_loop(m, track_ids, thr, {}, {}, {})

\* Matcher.match: boxes are the detections' boxes, heap the Track objects,
\* ids the dict's keys in order.
match(boxes, heap, ids, use_pred, thr) ==
    IF Len(ids) = 0 \/ Len(boxes) = 0 THEN {}
    ELSE LET track_boxes == [j \in 1..Len(ids) |-> get_track_box(heap[ids[j]], use_pred)]
         IN  greedy_match(build_iou_matrix(boxes, track_boxes), ids, thr)

----------------------------------------------------------------------------
(* TrackManager and Tracker (services/tracker.py).  A detection is         *)
(* <<x1, y1, x2, y2, cls, score>>, the score in hundredths.                *)

\* Track(id, bbox, cls, score, history=[(cx, cy)]) with the dataclass defaults.
NewTrack(id, box, cls, score, t) ==
    [id |-> id, bbox |-> box, cls |-> cls, score |-> score, last_seen |-> t,
     hits |-> 1, lost_frames |-> 0, history |-> <<center(box)>>,
     velocity |-> <<RZero, RZero>>, clothing |-> None, activity |-> None,
     activity_conf |-> 0, cls_name |-> None, previous_activity |-> None]

\* A create_track whose Track starts with a velocity.
create_track_moving(id, box, cls, score, t) ==
    [NewTrack(id, box, cls, score, t) EXCEPT !.velocity = <<RInt(1), RZero>>]

\* TrackManager.create_track: the Track built for the id handed in (_next_id).
create_track(id, box, cls, score, t) == NewTrack(id, box, cls, score, t)

\* TrackManager.update_track
\* The track matched to a box, with h the history after add_position.
matched(track, box, cls, score, t, h) ==
    [track EXCEPT !.bbox = box, !.cls = cls, !.score = score, !.last_seen = t,
                  !.hits = track.hits + 1, !.lost_frames = 0,
                  !.history = h, !.velocity = update_velocity(h)]

update_track(track, box, cls, score, t) ==
    matched(track, box, cls, score, t, add_position(track.history, center(box)))

\* TrackManager._should_predict, on the track whose lost_frames was incremented.
should_predict(track, ml, use_pred) == use_pred /\ track.lost_frames <= ml

\* TrackManager._apply_prediction
\* max(0.5, 1.0 - lost_frames * 0.02)
decay_of(lost_frames) ==
    RMax(Rat(1, 2), RSub(RInt(1), RMul(RInt(lost_frames), Rat(2, 100))))

\* The track with its bbox moved to b and b's center appended to the history.
moved_to(track, b) ==
    [track EXCEPT !.bbox = b, !.history = add_position(track.history, center(b))]

\* The track with velocity v, moved by it.
with_velocity(track, v) == moved_to([track EXCEPT !.velocity = v],
                                    predict_bbox([track EXCEPT !.velocity = v]))

decayed(track, decay) ==
    with_velocity(track, <<RMul(track.velocity[1], decay), RMul(track.velocity[2], decay)>>)

apply_prediction(track) == decayed(track, decay_of(track.lost_frames))

\* One iteration of the loop of TrackManager.update_lost_tracks for a track that
\* is not in updated_ids: the Track object afterwards.
predict_if_due(aged, ml, use_pred) ==
    IF should_predict(aged, ml, use_pred) THEN apply_prediction(aged) ELSE aged

age_track(track, ml, use_pred) ==
    predict_if_due([track EXCEPT !.lost_frames = track.lost_frames + 1], ml, use_pred)

is_expired_geq(track, ml) == track.lost_frames >= ml
is_expired_late(track, ml) == track.lost_frames > ml + 1
\* The deletion test of TrackManager.update_lost_tracks.
is_expired(track, ml) == track.lost_frames > ml

Range(seq) == {seq[k] : k \in 1..Len(seq)}

\* tuple(d[:4])
BoxOf(d) == <<d[1], d[2], d[3], d[4]>>

\* The indices of the detections Tracker._create_new_tracks makes tracks for,
\* in the order of the detection list.
unmatched_dets(n, mapping) ==
    LET Free(i) == \A p \in mapping : p[1] # i
    IN  SelectSeq([i \in 1..n |-> i], Free)

\* The ids Tracker._create_new_tracks hands out: _next_id and its successors.
fresh_ids_stuck(nid, k) == [q \in 1..k |-> nid]
fresh_ids(nid, k) == [q \in 1..k |-> nid + q - 1]

\* The end of update_lost_tracks: the tracks past max_lost leave the dict.
\* heap3 holds the Track objects after ageing, ids2 the keys before deletion.
finish_update(heap3, ids2, nid2, mapping, updated_ids, new_set, ml) ==
    LET Kept(id) == id \in updated_ids \/ ~is_expired(heap3[id], ml)
    IN  [objs |-> heap3,
         tracks |-> SelectSeq(ids2, Kept),
         next_id |-> nid2,
         mapping |-> mapping,
         created |-> new_set,
         removed |-> {id \in Range(ids2) : ~Kept(id)}]

\* Tracker.update after Matcher.match returned mapping: _update_matched_tracks,
\* _create_new_tracks for the detections free (given the ids new_ids), then
\* update_lost_tracks.
update_with(heap, ids, nid, detections, ml, use_pred, t, mapping, free, new_ids) ==
    LET updated_ids == {p[2] : p \in mapping}
        DetOf(id) == CHOOSE i \in 1..Len(detections) : <<i, id>> \in mapping
        NewDet(id) == detections[free[CHOOSE q \in 1..Len(new_ids) : new_ids[q] = id]]
        Settled(id) ==
            IF id \in updated_ids
            THEN update_track(heap[id], BoxOf(detections[DetOf(id)]),
                              detections[DetOf(id)][5], detections[DetOf(id)][6], t)
            ELSE IF id \in Range(new_ids)
            THEN create_track(id, BoxOf(NewDet(id)), NewDet(id)[5], NewDet(id)[6], t)
            ELSE heap[id]
        Aged(id) ==
            IF (id \in Range(ids) \/ id \in Range(new_ids)) /\ id \notin updated_ids
            THEN age_track(Settled(id), ml, use_pred)
            ELSE Settled(id)
    IN  finish_update([id \in DOMAIN heap \cup Range(new_ids) |-> Aged(id)],
                      ids \o new_ids, nid + Len(free), mapping, updated_ids,
                      Range(new_ids), ml)

with_free(heap, ids, nid, detections, ml, use_pred, t, mapping, free) ==
    update_with(heap, ids, nid, detections, ml, use_pred, t, mapping, free,
                fresh_ids(nid, Len(free)))

with_mapping(heap, ids, nid, detections, ml, use_pred, t, mapping) ==
    with_free(heap, ids, nid, detections, ml, use_pred, t, mapping,
              unmatched_dets(Len(detections), mapping))

\* Tracker.update on the heap of Track objects, the dict's key order and _next_id.
tracker_update(heap, ids, nid, detections, ml, use_pred, thr, t) ==
    with_mapping(heap, ids, nid, detections, ml, use_pred, t,
                 match([i \in 1..Len(detections) |-> BoxOf(detections[i])],
                       heap, ids, use_pred, thr))

\* The Track objects still referenced from the list of ids keep.
Live(heap, keep) == [id \in (DOMAIN heap \cap keep) |-> heap[id]]

----------------------------------------------------------------------------
(* The detector's outputs explored.  All boxes share one vertical extent,  *)
(* so tracks move along x only.                                            *)

\* det_model.names, the detector's class table (the classes the pipeline uses).
names == (0 :> "person") @@ (1 :> "bicycle") @@ (2 :> "car") @@ (5 :> "bus")
         @@ (6 :> "train") @@ (7 :> "truck")
PersonClass == CHOOSE k \in DOMAIN names : names[k] = "person"

Box(x1, y1, x2, y2) == <<RInt(x1), RInt(y1), RInt(x2), RInt(y2)>>
Det(x1, x2) == <<RInt(x1), RInt(0), RInt(x2), RInt(4), PersonClass, 90>>

DetA == Det(0, 4)
DetB == Det(2, 6)
DetC == Det(4, 8)
\* A person at DetC's place with a confidence below the person threshold.
DetLow == <<RInt(4), RInt(0), RInt(8), RInt(4), PersonClass, 30>>

\* The detection lists a frame may yield.
FrameInputs == {<<>>, <<DetA>>, <<DetB>>, <<DetC>>, <<DetA, DetC>>}

----------------------------------------------------------------------------
(* The sync store (utils/state_sync.py).  A camera's data is a dict, that  *)
(* is a function from the keys present to their values; the document is a  *)
(* dict from camera ids to camera data.                                    *)

HEARTBEAT_TIMEOUT == 60
STOP_TIMEOUT == 300
DEFAULT_CAMERA_ID == "default"

\* d[k] = v
Put(d, k, v) == [x \in DOMAIN d \cup {k} |-> IF x = k THEN v ELSE d[x]]
\* del d[k]
Del(d, k) == [x \in DOMAIN d \ {k} |-> d[x]]
\* d.get(k, default)
Get(d, k, default) == IF k \in DOMAIN d THEN d[k] ELSE default

EmptyDoc == [c \in {} |-> c]

create_camera_data(current_time) ==
    [tracks |-> <<>>, heartbeat |-> current_time, start_time |-> current_time,
     status |-> "running"]

register_camera_start(data, camera_id, current_time) ==
    Put(data, camera_id, create_camera_data(current_time))

stopped_data(camera_data, current_time) ==
    Put(Put(Put(Put(camera_data, "status", "stopped"), "stop_time", current_time),
            "tracks", <<>>), "heartbeat", 0)

register_camera_stop(data, camera_id, current_time) ==
    IF camera_id \in DOMAIN data
    THEN Put(data, camera_id, stopped_data(data[camera_id], current_time))
    ELSE data

running_again(camera_data, current_time) ==
    Del(Put(Put(camera_data, "heartbeat", current_time), "status", "running"), "stop_time")

heartbeat_camera(data, camera_id, current_time) ==
    IF camera_id \notin DOMAIN data
    THEN Put(data, camera_id, create_camera_data(current_time))
    ELSE Put(data, camera_id, running_again(data[camera_id], current_time))

save_camera_tracks(data, camera_id, track_data, timestamp) ==
    Put(data, camera_id,
        running_again(Put(Get(data, camera_id, create_camera_data(timestamp)),
                          "tracks", track_data),
                      timestamp))

\* The stop_time test of _is_camera_running.
within_stop_grace(stop_time, current_time) ==
    stop_time > 0 /\ current_time - stop_time < STOP_TIMEOUT

\* A heartbeat test that lets the timeout itself pass.
heartbeat_fresh_inclusive(heartbeat, current_time) ==
    heartbeat > 0 /\ current_time - heartbeat <= HEARTBEAT_TIMEOUT

\* The heartbeat test of _is_camera_running (age is infinite for heartbeat 0).
heartbeat_fresh(heartbeat, current_time) ==
    heartbeat > 0 /\ current_time - heartbeat < HEARTBEAT_TIMEOUT

\* A running test that looks at the status and the stop grace only.
is_camera_running_any_age(camera_data, current_time) ==
    IF Get(camera_data, "status", "stopped") = "stopped" THEN FALSE
    ELSE ~within_stop_grace(Get(camera_data, "stop_time", 0), current_time)

is_camera_running(camera_data, current_time) ==
    IF Get(camera_data, "status", "stopped") = "stopped" THEN FALSE
    ELSE IF within_stop_grace(Get(camera_data, "stop_time", 0), current_time) THEN FALSE
    ELSE heartbeat_fresh(Get(camera_data, "heartbeat", 0), current_time)

get_running_camera_ids(data, current_time) ==
    {c \in DOMAIN data : is_camera_running(data[c], current_time)}

\* What SYNC_FILE may be on disk: a JSON object (the document), no file, a
\* file that cannot be opened, text that is not JSON, JSON that is not an object.
FileKinds == {"object", "missing", "unreadable", "garbage", "other_json"}

\* _read_file: {} when there is no file or when open or json.load keep failing,
\* else whatever json.load returns (is_dict: it is a dict).
read_file(kind, doc) ==
    [is_dict |-> kind # "other_json", data |-> IF kind = "object" THEN doc ELSE EmptyDoc]

\* A reader whose body is not inside try/except: what data.items() raises on
\* a value that is not a dict reaches the caller.
unguarded(read, value, default) ==
    [raised |-> ~read.is_dict, value |-> IF read.is_dict THEN value ELSE default]

\* try: ... return value / except Exception: return default
guarded(read, value, default) ==
    [raised |-> FALSE, value |-> IF read.is_dict THEN value ELSE default]

\* get_running_camera_ids() on what _read_file returned at current_time.
running_ids(read, current_time) ==
    guarded(read, get_running_camera_ids(read.data, current_time), {})

\* A reader that returns the tracks of every camera of the file.
get_all_camera_tracks_unfiltered(read, current_time) ==
    guarded(read, [c \in DOMAIN read.data |-> Get(read.data[c], "tracks", <<>>)], EmptyDoc)

\* get_all_camera_tracks() on what _read_file returned at current_time.
get_all_camera_tracks(read, current_time) ==
    guarded(read,
            [c \in get_running_camera_ids(read.data, current_time) |->
                Get(read.data[c], "tracks", <<>>)],
            EmptyDoc)

NoStats == [person |-> 0, train |-> 0, total |-> 0]

\* _calculate_stats_from_tracks
calculate_stats_from_tracks(track_list) ==
    [person |-> Cardinality({i \in DOMAIN track_list :
                                Get(track_list[i], "class_name", "unknown") = "person"}),
     train |-> Cardinality({i \in DOMAIN track_list :
                               Get(track_list[i], "class_name", "unknown") = "train"}),
     total |-> Len(track_list)]

\* get_camera_stats, from what its two reads returned.
get_camera_stats(running_cameras, all_tracks, camera_id) ==
    IF camera_id \notin running_cameras THEN NoStats
    ELSE calculate_stats_from_tracks(Get(all_tracks, camera_id, <<>>))

\* get_camera_stats when nothing happens between its two reads.
stats(kind, doc, current_time, camera_id) ==
    get_camera_stats(running_ids(read_file(kind, doc), current_time).value,
                     get_all_camera_tracks(read_file(kind, doc), current_time).value,
                     camera_id)

\* max_retries of _write_file
max_retries == 5

\* The exceptions a write attempt may raise: those _write_file catches, and one
\* it does not (json.dump on a value it cannot serialise).
WriteErrors == {"OSError", "TypeError"}

\* _write_file when an attempt raises exc after `failed` failed attempts: the
\* loop goes on, or ends with the error logged, or the exception leaves it.
write_failed(exc, failed) ==
    IF exc = "OSError"
    THEN IF failed < max_retries - 1 THEN "retry" ELSE "gave_up"
    ELSE "raise"

\* A mutation that catches I/O errors only.
mutation_catches_io(exc) == exc = "OSError"

\* except Exception as e: logger.warning(...), in every mutation
mutation_catches(exc) == exc \in WriteErrors

\* The camera ids in use, the processes calling the store, and the track
\* lists they save.
Cameras == {DEFAULT_CAMERA_ID, "cam1"}
Callers == {"p1", "p2"}
OneTrackData == [track_id |-> 1, class_name |-> "person", activity |-> "standing",
                 confidence |-> 90]
TrackLists == {<<>>, <<OneTrackData>>}
\* A caller that is inside no call.
NoCall == [op |-> None]
\* How a caller's last call ended (nothing yet), no get_camera_stats under way,
\* nothing read yet.
NoOutcome == [how |-> None, tries |-> 0, op |-> None]
NoReader == [pc |-> "idle"]
NoAnswer == [op |-> None]
\* The callers are interchangeable: of the idle ones the first makes the next call.
Earlier(q, p) == q = "p1" /\ p = "p2"

----------------------------------------------------------------------------
(* Detection filtering (services/pipeline/frame_detection.py), activity    *)
(* classification (services/activity.py) and track processing              *)
(* (services/pipeline/track_processing.py).  Confidences are in percent.   *)

PERSON_CLASSES == {"person"}
VEHICLE_CLASSES == {"train", "truck", "bus", "car"}
VALID_CLASSES == {"person", "train"}

\* config["confidence"]["person"], ["vehicle"]
conf_person == 35
conf_train == 65
\* config["video"]["default_fps"], config["activity"][...]
fps == 25
activity_window == 15
person_speed_threshold == 15
vehicle_displacement_threshold == 8
vehicle_min_history == 5
HEARTBEAT_INTERVAL == 2

get_class_name(nm, cls_id) == IF cls_id \in DOMAIN nm THEN nm[cls_id] ELSE None

\* FrameDetector._get_threshold returns a threshold (not None) for these.
has_threshold(cls_name) == cls_name \in PERSON_CLASSES \cup VEHICLE_CLASSES
\* A filter with one threshold for every class it knows.
get_threshold_same(cls_name) == conf_person

get_threshold(cls_name) == IF cls_name \in PERSON_CLASSES THEN conf_person ELSE conf_train

keeps(det, cls_name) == has_threshold(cls_name) /\ det[6] >= get_threshold(cls_name)

\* FrameDetector.filter
filter(detections) ==
    SelectSeq(detections, LAMBDA det : keeps(det, get_class_name(names, det[5])))

\* math.hypot(...) squared: distances are compared, never added.
Dist2(a, b) == (a[1] - b[1]) * (a[1] - b[1]) + (a[2] - b[2]) * (a[2] - b[2])

\* history[-window:]
LastPoints(history, window) ==
    SubSeq(history, IF Len(history) > window THEN Len(history) - window + 1 ELSE 1,
           Len(history))

\* sorted(ds)[len(ds) // 2]
Median(ds) ==
    CHOOSE x \in Range(ds) :
        /\ Cardinality({i \in DOMAIN ds : ds[i] < x}) <= Len(ds) \div 2
        /\ Len(ds) \div 2 < Cardinality({i \in DOMAIN ds : ds[i] <= x})

Steps2(pts) == [i \in 1..(Len(pts) - 1) |-> Dist2(pts[i + 1], pts[i])]

\* ActivityClassifier._compute_speed(track) < speed_threshold, on squares.
is_slow(history) ==
    IF Len(history) < 3 THEN TRUE
    ELSE Median(Steps2(LastPoints(history, activity_window))) * fps * fps
            < person_speed_threshold * person_speed_threshold

\* PersonClassifier.classify
classify_person(history) ==
    IF is_slow(history) THEN [label |-> "standing", confidence |-> 90]
    ELSE [label |-> "moving", confidence |-> 90]

\* VehicleClassifier.classify
classify_vehicle(history) ==
    IF Len(history) < vehicle_min_history THEN [label |-> "stopped", confidence |-> 85]
    ELSE IF Dist2(history[Len(history)], history[1])
               < vehicle_displacement_threshold * vehicle_displacement_threshold
         THEN [label |-> "stopped", confidence |-> 95]
         ELSE [label |-> "moving", confidence |-> 90]

with_activity(track, result) ==
    [track EXCEPT !.activity = result.label, !.activity_conf = result.confidence]

\* ActivityClassifier._classify
classify(track) ==
    IF track.cls_name \in PERSON_CLASSES
    THEN with_activity(track, classify_person(track.history))
    ELSE IF track.cls_name \in VEHICLE_CLASSES
         THEN with_activity(track, classify_vehicle(track.history))
         ELSE [track EXCEPT !.activity = None, !.activity_conf = 0]

\* A class test that lets every classified class through.
is_valid_track_class_classified(track) ==
    track.cls_name \in PERSON_CLASSES \cup VEHICLE_CLASSES

\* TrackProcessor._is_valid_track_class
is_valid_track_class(track) == track.cls_name \in VALID_CLASSES
has_activity(track) == track.activity # None

\* A _should_log_track_change that forgets what was logged last.
should_log_track_change_always(track) ==
    is_valid_track_class(track) /\ has_activity(track)

\* TrackProcessor._should_log_track_change
should_log_track_change(track) ==
    /\ is_valid_track_class(track)
    /\ has_activity(track)
    /\ (track.previous_activity = None \/ track.activity # track.previous_activity)

\* TrackProcessor._log_track_activity (not forced): the row is written and the
\* track remembers the activity logged.
log_track_activity(track) ==
    IF should_log_track_change(track)
    THEN [track EXCEPT !.previous_activity = track.activity]
    ELSE track

\* TrackProcessor._classify and _log_activity_changes, for one track.
process_track(track) ==
    log_track_activity(classify([track EXCEPT !.cls_name = get_class_name(names, track.cls)]))

OrUnknown(v) == IF v = None THEN "unknown" ELSE v

track_row(track) ==
    [track_id |-> track.id, class_name |-> OrUnknown(track.cls_name),
     activity |-> OrUnknown(track.activity), confidence |-> track.activity_conf]

valid_ids(heap, ids) == SelectSeq(ids, LAMBDA id : is_valid_track_class(heap[id]))
rows_of(heap, ids) == [i \in 1..Len(ids) |-> track_row(heap[ids[i]])]

\* TrackProcessor._prepare_track_data
prepare_track_data(heap, ids) == rows_of(heap, valid_ids(heap, ids))

\* TrackProcessor.process on the heap: every listed track classified and logged.
process(heap, ids) ==
    [id \in DOMAIN heap |-> IF id \in Range(ids) THEN process_track(heap[id]) ELSE heap[id]]

\* PERIODIC_LOG_INTERVAL, in seconds
PERIODIC_LOG_INTERVAL == 30

\* TrackProcessor._classify: every listed track named, then classified.
classified(heap, ids) ==
    [id \in DOMAIN heap |->
        IF id \in Range(ids)
        THEN classify([heap[id] EXCEPT !.cls_name = get_class_name(names, heap[id].cls)])
        ELSE heap[id]]

\* TrackProcessor._should_periodic_log
should_periodic_log(current_time, last_time) ==
    current_time - last_time >= PERIODIC_LOG_INTERVAL

\* TrackProcessor._should_periodic_log_track
should_periodic_log_track(track) == is_valid_track_class(track) /\ has_activity(track)

\* The arguments _log_track_activity hands to log_activity, and its force flag.
log_args(track, force) ==
    [track_id |-> track.id, class_name |-> track.cls_name, activity |-> track.activity,
     confidence |-> track.activity_conf, force |-> force]

\* A loop of _log_activity_changes without its continue: a changed track is
\* flushed as well.
log_call_no_continue(track, should_periodic) ==
    (IF should_log_track_change(track) THEN <<log_args(track, FALSE)>> ELSE <<>>)
       \o (IF should_periodic /\ should_periodic_log_track(track)
           THEN <<log_args(track, TRUE)>> ELSE <<>>)

\* One turn of the loop of _log_activity_changes: the log_activity call made
\* for a classified track, if any.
log_call(track, should_periodic) ==
    IF should_log_track_change(track) THEN <<log_args(track, FALSE)>>
    ELSE IF should_periodic /\ should_periodic_log_track(track)
         THEN <<log_args(track, TRUE)>>
         ELSE <<>>

\* TrackProcessor._log_activity_changes: the log_activity calls, in track order.
RECURSIVE log_activity_changes(_, _, _)
log_activity_changes(heap, ids, should_periodic) ==
    IF ids = <<>> THEN <<>>
    ELSE log_call(heap[Head(ids)], should_periodic)
            \o log_activity_changes(heap, Tail(ids), should_periodic)

\* log_activity (web/api/utils/database.py): the INSERT, or, when sqlite raises,
\* the error logged and the table left as it was.  It returns normally either way.
log_activity(rows, call, camera_id, timestamp, sqlite_error) ==
    IF sqlite_error THEN rows
    ELSE Append(rows, [track_id |-> call.track_id, class |-> call.class_name,
                       activity |-> call.activity, confidence |-> call.confidence,
                       timestamp |-> timestamp, camera_id |-> camera_id])

\* The table after the calls cs, made in order.
RECURSIVE log_all(_, _, _, _, _)
log_all(rows, cs, camera_id, timestamp, sqlite_error) ==
    IF cs = <<>> THEN rows
    ELSE log_all(log_activity(rows, Head(cs), camera_id, timestamp, sqlite_error),
                 Tail(cs), camera_id, timestamp, sqlite_error)

\* The tracks of ids that are of a loggable class and have an activity.
loggable_ids(heap, ids) ==
    {id \in Range(ids) : should_periodic_log_track(heap[id])}

\* What TrackProcessor.process does besides changing the tracks, on the heap
\* left by _classify: the log rows, the periodic clock and the saved tracks.
\* sqlite_error: the database refuses the inserts of this call.
Processed(heap, ids, sqlite_error) ==
    /\ \E cs \in {log_activity_changes(heap, ids,
                        should_periodic_log(now, last_periodic_log_time))} :
          /\ logs' = log_all(logs, cs, DEFAULT_CAMERA_ID, now, sqlite_error)
          /\ log_calls' = log_calls \o
                [i \in 1..Len(cs) |->
                    [track_id |-> cs[i].track_id, activity |-> cs[i].activity,
                     force |-> cs[i].force, ok |-> ~sqlite_error, n |-> process_no + 1]]
    /\ IF should_periodic_log(now, last_periodic_log_time)
       THEN /\ last_periodic_log_time' = now
            /\ flushes' = Append(flushes, [n |-> process_no + 1, t |-> now])
       ELSE UNCHANGED <<last_periodic_log_time, flushes>>
    /\ process_no' = process_no + 1
    /\ seen' = [id \in DOMAIN seen \cup loggable_ids(heap, ids) |->
                  IF id \in loggable_ids(heap, ids)
                  THEN Append(Get(seen, id, <<>>),
                              [n |-> process_no + 1, activity |-> heap[id].activity])
                  ELSE seen[id]]
    /\ file' = save_camera_tracks(file, DEFAULT_CAMERA_ID, prepare_track_data(heap, ids), now)
    /\ file_kind' = "object"

----------------------------------------------------------------------------
(* The tracker on its own: Tracker.update fed with arbitrary frames.       *)

\* No Tracker.update call has been observed.
InitObservers ==
    /\ frame_no = 0
    /\ inputs = <<>>
    /\ misses = [id \in {} |-> 0]
    /\ pre = [tracks |-> <<>>, box |-> [id \in {} |-> id], hits |-> [id \in {} |-> 0],
              misses |-> [id \in {} |-> 0], next_id |-> 1]
    /\ last_mapping = {}
    /\ created = {}
    /\ deleted = [id \in {} |-> 0]

\* Tracker(iou_threshold = thr, max_lost = ml, use_prediction = up), not yet fed.
InitTrackerAt(thr, ml, up) ==
    /\ objs = [id \in {} |-> id]
    /\ tracks = <<>>
    /\ next_id = 1
    /\ max_lost = ml
    /\ use_prediction = up
    /\ iou_threshold = thr
    /\ InitObservers

\* Tracker(iou_threshold = 0.2, max_lost = ml, use_prediction = up), not yet fed.
InitTracker(ml, up) == InitTrackerAt(Rat(2, 10), ml, up)

\* Nobody is inside a call, nothing has been read.
InitCalls ==
    /\ pending = [p \in Callers |-> NoCall]
    /\ calls = 0
    /\ stopped_at = [c \in Cameras |-> 0]
    /\ attempts = [p \in Callers |-> 0]
    /\ outcome = [p \in Callers |-> NoOutcome]
    /\ reader = NoReader
    /\ answer = NoAnswer
    /\ started = [c \in Cameras |-> FALSE]
    /\ beat_at = [c \in Cameras |-> 0]
    /\ raced = FALSE

\* Nothing has run yet: there is no SYNC_FILE.
InitStore ==
    /\ file = EmptyDoc
    /\ file_kind = "missing"
    /\ InitCalls

\* What the manager holds of a file: the kind of thing it is, and for a JSON
\* object the camera ids that are its keys, for an array its length.
File(type, ids, size) == [type |-> type, ids |-> ids, size |-> size]
MissingFile == File("missing", {}, 0)
InvalidJson == File("invalid", {}, 0)
NotLoaded == File("none", {}, 0)
EmptyObject == File("object", {}, 0)

\* No camera manager is run.
NoArgs == [create_config |-> None, camera |-> None, source |-> None, config |-> None,
           show |-> FALSE]

\* A camera manager at position pc of main, run with the command line a, the
\* file named by --config being f.
InitManager(a, f, pc) ==
    /\ argv = a
    /\ config_file = f
    /\ pc_manager = pc
    /\ loaded = NotLoaded
    /\ children = [c \in {} |-> c]
    /\ exit_code = -1

\* _shared_state = SharedState(): self._tracks = {}
InitApi == shared_tracks = EmptyDoc

\* No Matcher.match call is under way.
NoMatch == [pc |-> "idle"]
InitMatcher == matcher = NoMatch

\* config["clothing"]["high_vis"]["coverage"] = 0.03, in hundredths.
default_coverage == 3

\* PipelineConfig.__post_init__: skip_clothing = not config["clothing"]["enabled"]
\* and clothing_coverage, unless the caller set them.
InitConfig(skip, coverage) ==
    /\ skip_clothing = skip
    /\ clothing_coverage = coverage

InitLog ==
    /\ logs = <<>>
    /\ last_periodic_log_time = 0
    /\ process_no = 0
    /\ log_calls = <<>>
    /\ seen = [id \in {} |-> <<>>]
    /\ flushes = <<>>

NoFrame == [n |-> 0, dets |-> <<>>]
\* Nothing raised in the worker's iteration.
NoFault == [detect |-> FALSE, classify |-> 0]

\* A DetectionWorker at position pc, holding frame.
InitWorker(frame, pc) ==
    /\ running = FALSE
    /\ pc_worker = pc
    /\ queue_slot = <<>>
    /\ w_frame = frame
    /\ w_tracks = <<>>
    /\ pub_tracks = <<>>
    /\ pub_vals = [id \in {} |-> id]
    /\ taken = {}
    /\ filtered = <<>>
    /\ fault = NoFault

\* No pipeline driver is run.
InitDriver ==
    /\ pipeline_camera_id = None
    /\ max_frames = 0
    /\ show = FALSE
    /\ pc_driver = "unused"
    /\ frame_count = 0
    /\ d_frame = NoFrame
    /\ last_heartbeat_time = 0
    /\ snap = <<>>
    /\ snap_vals = [id \in {} |-> id]

\* Pipeline(config, camera_id = cfg.camera_id) before run(cfg.max_frames, show = cfg.show).
InitPipeline(cfg) ==
    /\ pipeline_camera_id = cfg.camera_id
    /\ max_frames = cfg.max_frames
    /\ show = cfg.show
    /\ pc_driver = cfg.pc
    /\ frame_count = 0
    /\ d_frame = NoFrame
    /\ last_heartbeat_time = 0
    /\ snap = <<>>
    /\ snap_vals = [id \in {} |-> id]
    /\ InitWorker(NoFrame, "unstarted")

\* No pipeline is run.
NoRun == [camera_id |-> None, max_frames |-> 0, show |-> FALSE, pc |-> "unused"]

Init ==
    /\ \E ml \in 0..MaxLost, up \in BOOLEAN : InitTracker(ml, up)
    /\ InitStore
    /\ InitPipeline(NoRun)
    /\ InitLog
    /\ InitManager(NoArgs, MissingFile, "unused")
    /\ InitApi
    /\ InitConfig(FALSE, default_coverage)
    /\ InitMatcher
    /\ now = StartTime

\* What Tracker.update(detections) leaves when its result is r, with the
\* observers of the call.
Returned(r, detections) ==
    /\    /\ objs' = Live(r.objs, Range(r.tracks))
          /\ tracks' = r.tracks
          /\ next_id' = r.next_id
          /\ misses' = [id \in DOMAIN misses \cup r.created |->
                          IF id \in r.created \/ (\E p \in r.mapping : p[2] = id)
                          THEN 0 ELSE misses[id] + 1]
          /\ last_mapping' = r.mapping
          /\ created' = r.created
          /\ deleted' = [id \in DOMAIN deleted \cup r.removed |->
                           IF id \in r.removed THEN r.objs[id].lost_frames ELSE deleted[id]]
    /\ frame_no' = frame_no + 1
    /\ inputs' = Append(inputs, detections)
    /\ pre' = [tracks |-> tracks,
               box |-> [id \in Range(tracks) |-> get_track_box(objs[id], use_prediction)],
               hits |-> [id \in Range(tracks) |-> objs[id].hits],
               misses |-> misses,
               next_id |-> next_id]

\* Tracker.update(detections), with the observers of the call.
Updated(detections) ==
    /\ \E r \in {tracker_update(objs, tracks, next_id, detections, max_lost,
                                use_prediction, iou_threshold, now)} :
          Returned(r, detections)
    /\ UNCHANGED <<managerVars, apiVars, configVars, matcherVars, logVars, ioVars, max_lost, use_prediction, iou_threshold, now, storeVars,
                   driverVars, workerVars>>

\* Tracker.update(detections)
Update(detections) ==
    /\ frame_no < MaxFrames
    /\ Updated(detections)

NextTracker == \E detections \in FrameInputs : Update(detections)

SpecTracker == Init /\ [][NextTracker]_vars

----------------------------------------------------------------------------
(* The tracker through an occlusion: an object seen at one place for some  *)
(* frames, then not detected for some frames, then a detection elsewhere.  *)

\* DEFAULT_MAX_LOST
DEFAULT_MAX_LOST == 45

\* The detection at the original place and the one that ends the occlusion.
DetOrigin == <<RInt(0), RInt(0), RInt(50), RInt(50), PersonClass, 90>>
DetFar == <<RInt(200), RInt(0), RInt(250), RInt(50), PersonClass, 90>>

\* The frames fed so far that had the detection ds.
FedWith(ds) == Cardinality({i \in 1..Len(inputs) : inputs[i] = ds})

\* A frame with the object at its original place, while it has not been lost.
SeenFrame ==
    /\ FedWith(<<DetOrigin>>) = Len(inputs)
    /\ Len(inputs) < SeenFrames
    /\ Updated(<<DetOrigin>>)

\* A frame without detections, once the object has been seen.
LostFrame ==
    /\ Len(inputs) >= 1
    /\ FedWith(<<DetFar>>) = 0
    /\ FedWith(<<>>) < LostFrames
    /\ Updated(<<>>)

\* The frame with the detection elsewhere, after at least one lost frame.
FarFrame ==
    /\ FedWith(<<>>) >= 1
    /\ FedWith(<<DetFar>>) = 0
    /\ Updated(<<DetFar>>)

NextOcclusion == SeenFrame \/ LostFrame \/ FarFrame

InitOcclusionSpec ==
    /\ \E up \in BOOLEAN : InitTracker(DEFAULT_MAX_LOST, up)
    /\ InitStore
    /\ InitPipeline(NoRun)
    /\ InitLog
    /\ InitManager(NoArgs, MissingFile, "unused")
    /\ InitApi
    /\ InitConfig(FALSE, default_coverage)
    /\ InitMatcher
    /\ now = StartTime

SpecOcclusion == InitOcclusionSpec /\ [][NextOcclusion]_vars

----------------------------------------------------------------------------
(* The sync store under concurrent callers.  Every writer reads the whole  *)
(* document, changes its copy and writes the whole document back; the two  *)
(* file accesses are separate steps.                                       *)

\* The document the call writes back, from what it read at time t.
Written(op, data, camera_id, track_data, t) ==
    CASE op = "register_camera_start" -> register_camera_start(data, camera_id, t)
      [] op = "register_camera_stop" -> register_camera_stop(data, camera_id, t)
      [] op = "heartbeat_camera" -> heartbeat_camera(data, camera_id, t)
      [] op = "save_camera_tracks" -> save_camera_tracks(data, camera_id, track_data, t)

StoreOps == {"register_camera_start", "register_camera_stop", "heartbeat_camera"}

\* data = _read_file(); current_time = time.time(); ... change data ...
BeginCall(p, op, camera_id, track_data) ==
    /\ pending[p] = NoCall
    /\ \A q \in Callers : Earlier(q, p) => pending[q] # NoCall
    /\ calls < MaxCalls
    /\ calls' = calls + 1
    /\ pending' = [pending EXCEPT ![p] =
                     [op |-> op, camera_id |-> camera_id, at |-> now,
                      after_start |-> started[camera_id],
                      data |-> Written(op, read_file(file_kind, file).data, camera_id,
                                       track_data, now)]]
    /\ stopped_at' = IF op = "register_camera_start"
                     THEN [stopped_at EXCEPT ![camera_id] = 0]
                     ELSE stopped_at
    /\ started' = IF op \in {"register_camera_start", "register_camera_stop"}
                  THEN [started EXCEPT ![camera_id] = FALSE]
                  ELSE started
    /\ beat_at' = IF op \in {"register_camera_start", "register_camera_stop"}
                  THEN [beat_at EXCEPT ![camera_id] = 0]
                  ELSE beat_at
    /\ UNCHANGED <<managerVars, apiVars, configVars, matcherVars, logVars, file_kind, diskVars, readerVars, raced, file, now, trackerVars,
                   observerVars, driverVars, workerVars>>

\* The call of p ends while no other call is under way.
Alone(p) == \A q \in Callers \ {p} : pending[q] = NoCall

\* Another caller is inside a call on camera c.
OthersOn(p, c) ==
    \E q \in Callers \ {p} : pending[q] # NoCall /\ pending[q].camera_id = c

\* _write_file(data), an attempt that succeeds
EndCall(p) ==
    /\ pending[p] # NoCall
    /\ file' = pending[p].data
    /\ file_kind' = "object"
    /\ pending' = [pending EXCEPT ![p] = NoCall]
    /\ attempts' = [attempts EXCEPT ![p] = 0]
    /\ outcome' = [outcome EXCEPT ![p] = [how |-> "written", tries |-> attempts[p] + 1,
                                          op |-> pending[p].op]]
    /\ raced' = (raced \/ ~Alone(p))
    /\ started' = IF /\ pending[p].op = "register_camera_start"
                     /\ ~OthersOn(p, pending[p].camera_id)
                  THEN [started EXCEPT ![pending[p].camera_id] = TRUE]
                  ELSE started
    /\ beat_at' = IF /\ pending[p].op = "heartbeat_camera"
                     /\ pending[p].after_start
                     /\ started[pending[p].camera_id]
                     /\ ~OthersOn(p, pending[p].camera_id)
                  THEN [beat_at EXCEPT ![pending[p].camera_id] = pending[p].at]
                  ELSE beat_at
    /\ stopped_at' =
          IF /\ pending[p].op = "register_camera_stop"
             /\ pending[p].camera_id \in DOMAIN pending[p].data
             /\ \A q \in Callers \ {p} : pending[q] = NoCall
          THEN [stopped_at EXCEPT ![pending[p].camera_id] = now]
          ELSE stopped_at
    /\ UNCHANGED <<managerVars, apiVars, configVars, matcherVars, logVars, readerVars, calls, now, trackerVars, observerVars, driverVars,
                   workerVars>>

\* How a call ends whose _write_file was left in the way `left`: the error
\* logged by _write_file, or the exception caught by the mutation, or raised
\* to the caller.
ended(left, exc) ==
    IF left = "gave_up" THEN "logged"
    ELSE IF mutation_catches(exc) THEN "caught" ELSE "raised"

\* _write_file(data), an attempt that raises exc; torn: it raises after open()
\* has truncated the file (json.dump, flush and fsync come after open()).
WriteFails(p, exc, torn) ==
    /\ pending[p] # NoCall
    /\ exc = "TypeError" => torn
    /\ file' = IF torn THEN EmptyDoc ELSE file
    /\ file_kind' = IF torn THEN "garbage" ELSE file_kind
    /\ \E left \in {write_failed(exc, attempts[p])} :
          IF left = "retry"
          THEN /\ attempts' = [attempts EXCEPT ![p] = @ + 1]
               /\ UNCHANGED <<pending, outcome>>
          ELSE /\ attempts' = [attempts EXCEPT ![p] = 0]
               /\ pending' = [pending EXCEPT ![p] = NoCall]
               /\ outcome' = [outcome EXCEPT ![p] =
                                [how |-> ended(left, exc), tries |-> attempts[p] + 1,
                                 op |-> pending[p].op]]
    /\ UNCHANGED <<managerVars, apiVars, configVars, matcherVars, logVars, readerVars, beatVars, calls, stopped_at, now, trackerVars,
                   observerVars, driverVars, workerVars>>

\* time.time() advances.
Tick(limit) ==
    /\ now + TickSeconds <= limit
    /\ now' = now + TickSeconds
    /\ UNCHANGED <<managerVars, apiVars, configVars, matcherVars, logVars, ioVars, storeVars, trackerVars, observerVars, driverVars, workerVars>>

NextStore ==
    \/ \E p \in Callers, op \in StoreOps, c \in Cameras : BeginCall(p, op, c, <<>>)
    \/ \E p \in Callers, c \in Cameras, td \in TrackLists :
          BeginCall(p, "save_camera_tracks", c, td)
    \/ \E p \in Callers : EndCall(p)
    \/ Tick(StartTime + MaxTicks * TickSeconds)

InitStoreSpec ==
    /\ InitTracker(MaxLost, TRUE)
    /\ InitStore
    /\ InitPipeline(NoRun)
    /\ InitLog
    /\ InitManager(NoArgs, MissingFile, "unused")
    /\ InitApi
    /\ InitConfig(FALSE, default_coverage)
    /\ InitMatcher
    /\ now = StartTime

SpecStore == InitStoreSpec /\ [][NextStore]_vars

\* Pipelines that stay alive (none calls register_camera_stop), watched for
\* two heartbeat timeouts, one second before and at each timeout.
BeatTimes ==
    {t \in {StartTime + k * HEARTBEAT_TIMEOUT - a : k \in 0..2, a \in {0, 1}} : t >= StartTime}

\* time.time() advances to the next of these times.
BeatTick ==
    /\ \E t \in BeatTimes :
          /\ t > now
          /\ \A u \in BeatTimes : u > now => t <= u
          /\ now' = t
    /\ UNCHANGED <<managerVars, apiVars, configVars, matcherVars, logVars, ioVars, storeVars, trackerVars, observerVars, driverVars,
                   workerVars>>

NextBeat ==
    \/ \E p \in Callers, op \in StoreOps \ {"register_camera_stop"}, c \in Cameras :
          BeginCall(p, op, c, <<>>)
    \/ \E p \in Callers, c \in Cameras : BeginCall(p, "save_camera_tracks", c, <<OneTrackData>>)
    \/ \E p \in Callers : EndCall(p)
    \/ BeatTick

SpecBeat == InitStoreSpec /\ [][NextBeat]_vars

\* One pipeline whose writes of the file may fail.
NextDisk ==
    \/ \E op \in StoreOps : BeginCall("p1", op, "cam1", <<>>)
    \/ BeginCall("p1", "save_camera_tracks", "cam1", <<OneTrackData>>)
    \/ EndCall("p1")
    \/ \E exc \in WriteErrors, torn \in BOOLEAN : WriteFails("p1", exc, torn)

SpecDisk == InitStoreSpec /\ [][NextDisk]_vars

----------------------------------------------------------------------------
(* One pipeline run: the driver thread (Pipeline.run) and the worker       *)
(* thread (DetectionWorker._loop) around the single-slot queue.            *)
(* DetectionWorker.__init__ builds its TrackProcessor without a camera id, *)
(* so the worker saves its tracks under DEFAULT_CAMERA_ID.                 *)
(* Pipeline._create_worker passes camera_id = to DetectionWorker, whose    *)
(* __init__ has no such parameter: CreateWorkerFails is that call as       *)
(* written, StartWorker the worker built from the parameters __init__ has. *)

\* The raw detector outputs a frame of the source may carry.
PipelineInputs == {<<DetA>>, <<DetB>>, <<DetLow>>}

\* The runs explored.
RunConfigs ==
    {[camera_id |-> DEFAULT_CAMERA_ID, max_frames |-> 0, show |-> TRUE, pc |-> "register_start"],
     [camera_id |-> "cam1", max_frames |-> 2, show |-> FALSE, pc |-> "register_start"],
     [camera_id |-> None, max_frames |-> 1, show |-> FALSE, pc |-> "register_start"]}

\* The Track objects reachable from the tracker, the worker or the driver.
Referenced(ids, local, published, held) ==
    Range(ids) \cup Range(local) \cup Range(published) \cup Range(held)

\* Pipeline._register_camera_start
RegisterStart ==
    /\ pc_driver = "register_start"
    /\ file' = IF pipeline_camera_id = None THEN file
               ELSE register_camera_start(file, pipeline_camera_id, now)
    /\ file_kind' = IF pipeline_camera_id = None THEN file_kind ELSE "object"
    /\ pc_driver' = "open_video"
    /\ UNCHANGED <<managerVars, apiVars, configVars, matcherVars, logVars, diskVars, readerVars, beatVars, pending, calls, stopped_at, now, trackerVars, observerVars, workerVars,
                   pipeline_camera_id, max_frames, show, frame_count, d_frame,
                   last_heartbeat_time, snap, snap_vals>>

\* Pipeline._open_video, the source opens
OpenVideo ==
    /\ pc_driver = "open_video"
    /\ pc_driver' = "create_worker"
    /\ UNCHANGED <<managerVars, apiVars, configVars, matcherVars, logVars, ioVars, storeVars, now, trackerVars, observerVars, workerVars,
                   pipeline_camera_id, max_frames, show, frame_count, d_frame,
                   last_heartbeat_time, snap, snap_vals>>

\* Pipeline._open_video raises RuntimeError: run ends before its try block.
OpenVideoFails ==
    /\ pc_driver = "open_video"
    /\ pc_driver' = "raised"
    /\ UNCHANGED <<managerVars, apiVars, configVars, matcherVars, logVars, ioVars, storeVars, now, trackerVars, observerVars, workerVars,
                   pipeline_camera_id, max_frames, show, frame_count, d_frame,
                   last_heartbeat_time, snap, snap_vals>>

\* self._create_worker() raises TypeError (unexpected keyword camera_id): run
\* ends before its try block, the camera stays registered.
CreateWorkerFails ==
    /\ pc_driver = "create_worker"
    /\ pc_driver' = "raised"
    /\ UNCHANGED <<managerVars, apiVars, configVars, matcherVars, logVars, ioVars, storeVars, now, trackerVars, observerVars, workerVars,
                   pipeline_camera_id, max_frames, show, frame_count, d_frame,
                   last_heartbeat_time, snap, snap_vals>>

\* worker = DetectionWorker(det_model, tracker, config, classifier);
\* worker.start(); then _process begins.
StartWorker ==
    /\ pc_driver = "create_worker"
    /\ running' = TRUE
    /\ pc_worker' = "loop"
    /\ last_heartbeat_time' = now
    /\ pc_driver' = "read"
    /\ UNCHANGED <<managerVars, apiVars, configVars, matcherVars, logVars, ioVars, storeVars, now, trackerVars, observerVars,
                   pipeline_camera_id, max_frames, show, frame_count, d_frame, snap, snap_vals,
                   queue_slot, w_frame, w_tracks, pub_tracks, pub_vals, taken, filtered, fault>>

\* ret, frame = cap.read() with ret true
ReadFrame(dets) ==
    /\ pc_driver = "read"
    /\ frame_count < MaxPipelineFrames
    /\ frame_count' = frame_count + 1
    /\ d_frame' = [n |-> frame_count + 1, dets |-> dets]
    /\ pc_driver' = "submit"
    /\ UNCHANGED <<managerVars, apiVars, configVars, matcherVars, logVars, ioVars, storeVars, now, trackerVars, observerVars, workerVars,
                   pipeline_camera_id, max_frames, show, last_heartbeat_time, snap, snap_vals>>

\* cap.read() with ret false: the source is exhausted.
EndOfSource ==
    /\ pc_driver = "read"
    /\ pc_driver' = "register_stop"
    /\ UNCHANGED <<managerVars, apiVars, configVars, matcherVars, logVars, ioVars, storeVars, now, trackerVars, observerVars, workerVars,
                   pipeline_camera_id, max_frames, show, frame_count, d_frame,
                   last_heartbeat_time, snap, snap_vals>>

\* A get that leaves the frame in the slot.
after_get_peek(q) == q

\* The slot after queue.get / queue.get_nowait took its frame.
after_get(q) == Tail(q)

\* DetectionWorker.submit: put_nowait, or queue.Full
Submit ==
    /\ pc_driver = "submit"
    /\ IF Len(queue_slot) < 1
       THEN queue_slot' = <<d_frame>> /\ pc_driver' = "get_tracks"
       ELSE queue_slot' = queue_slot /\ pc_driver' = "drop_get"
    /\ UNCHANGED <<managerVars, apiVars, configVars, matcherVars, logVars, ioVars, storeVars, now, trackerVars, observerVars,
                   pipeline_camera_id, max_frames, show, frame_count, d_frame,
                   last_heartbeat_time, snap, snap_vals,
                   running, pc_worker, w_frame, w_tracks, pub_tracks, pub_vals, taken, filtered, fault>>

\* DetectionWorker._drop_old_frame: get_nowait; queue.Empty ends the call.
DropGet ==
    /\ pc_driver = "drop_get"
    /\ IF Len(queue_slot) > 0
       THEN queue_slot' = after_get(queue_slot) /\ pc_driver' = "drop_put"
       ELSE queue_slot' = queue_slot /\ pc_driver' = "get_tracks"
    /\ UNCHANGED <<managerVars, apiVars, configVars, matcherVars, logVars, ioVars, storeVars, now, trackerVars, observerVars,
                   pipeline_camera_id, max_frames, show, frame_count, d_frame,
                   last_heartbeat_time, snap, snap_vals,
                   running, pc_worker, w_frame, w_tracks, pub_tracks, pub_vals, taken, filtered, fault>>

\* DetectionWorker._drop_old_frame: put_nowait; queue.Full ends the call.
DropPut ==
    /\ pc_driver = "drop_put"
    /\ queue_slot' = IF Len(queue_slot) < 1 THEN <<d_frame>> ELSE queue_slot
    /\ pc_driver' = "get_tracks"
    /\ UNCHANGED <<managerVars, apiVars, configVars, matcherVars, logVars, ioVars, storeVars, now, trackerVars, observerVars,
                   pipeline_camera_id, max_frames, show, frame_count, d_frame,
                   last_heartbeat_time, snap, snap_vals,
                   running, pc_worker, w_frame, w_tracks, pub_tracks, pub_vals, taken, filtered, fault>>

\* DetectionWorker.get_tracks: list(self._tracks), a new list of the same objects.
GetTracks ==
    /\ pc_driver = "get_tracks"
    /\ snap' = pub_tracks
    /\ snap_vals' = pub_vals
    /\ objs' = Live(objs, Referenced(tracks, w_tracks, pub_tracks, pub_tracks))
    /\ pc_driver' = "draw"
    /\ UNCHANGED <<managerVars, apiVars, configVars, matcherVars, logVars, ioVars, storeVars, now, tracks, next_id, max_lost, use_prediction, iou_threshold,
                   observerVars, workerVars,
                   pipeline_camera_id, max_frames, show, frame_count, d_frame,
                   last_heartbeat_time>>

\* draw_tracks, _write_frame, and _should_quit false
Draw ==
    /\ pc_driver = "draw"
    /\ pc_driver' = "heartbeat"
    /\ UNCHANGED <<managerVars, apiVars, configVars, matcherVars, logVars, ioVars, storeVars, now, trackerVars, observerVars, workerVars,
                   pipeline_camera_id, max_frames, show, frame_count, d_frame,
                   last_heartbeat_time, snap, snap_vals>>

\* _should_quit true: a quit key in the show window
Quit ==
    /\ pc_driver = "draw"
    /\ show
    /\ pc_driver' = "register_stop"
    /\ UNCHANGED <<managerVars, apiVars, configVars, matcherVars, logVars, ioVars, storeVars, now, trackerVars, observerVars, workerVars,
                   pipeline_camera_id, max_frames, show, frame_count, d_frame,
                   last_heartbeat_time, snap, snap_vals>>

heartbeat_due == now - last_heartbeat_time >= HEARTBEAT_INTERVAL
should_stop == max_frames # 0 /\ frame_count >= max_frames

\* _update_heartbeat, _update_logging, _should_stop
Heartbeat ==
    /\ pc_driver = "heartbeat"
    /\ file' = IF heartbeat_due /\ pipeline_camera_id # None
               THEN heartbeat_camera(file, pipeline_camera_id, now)
               ELSE file
    /\ file_kind' = IF heartbeat_due /\ pipeline_camera_id # None THEN "object" ELSE file_kind
    /\ last_heartbeat_time' = IF heartbeat_due THEN now ELSE last_heartbeat_time
    /\ pc_driver' = IF should_stop THEN "register_stop" ELSE "read"
    /\ UNCHANGED <<managerVars, apiVars, configVars, matcherVars, logVars, diskVars, readerVars, beatVars, pending, calls, stopped_at, now, trackerVars, observerVars, workerVars,
                   pipeline_camera_id, max_frames, show, frame_count, d_frame, snap, snap_vals>>

InProcess == {"read", "submit", "drop_get", "drop_put", "get_tracks", "draw", "heartbeat"}

\* KeyboardInterrupt inside _process: control passes to the finally block.
Interrupt ==
    /\ pc_driver \in InProcess
    /\ pc_driver' = "register_stop"
    /\ UNCHANGED <<managerVars, apiVars, configVars, matcherVars, logVars, ioVars, storeVars, now, trackerVars, observerVars, workerVars,
                   pipeline_camera_id, max_frames, show, frame_count, d_frame,
                   last_heartbeat_time, snap, snap_vals>>

\* finally: self._register_camera_stop()
RegisterStop ==
    /\ pc_driver = "register_stop"
    /\ file' = IF pipeline_camera_id = None THEN file
               ELSE register_camera_stop(file, pipeline_camera_id, now)
    /\ file_kind' = IF pipeline_camera_id = None THEN file_kind ELSE "object"
    /\ pc_driver' = "stop_worker"
    /\ UNCHANGED <<managerVars, apiVars, configVars, matcherVars, logVars, diskVars, readerVars, beatVars, pending, calls, stopped_at, now, trackerVars, observerVars, workerVars,
                   pipeline_camera_id, max_frames, show, frame_count, d_frame,
                   last_heartbeat_time, snap, snap_vals>>

\* _cleanup: worker.stop() sets _running = False
StopWorker ==
    /\ pc_driver = "stop_worker"
    /\ running' = FALSE
    /\ pc_driver' = "join"
    /\ UNCHANGED <<managerVars, apiVars, configVars, matcherVars, logVars, ioVars, storeVars, now, trackerVars, observerVars,
                   pipeline_camera_id, max_frames, show, frame_count, d_frame,
                   last_heartbeat_time, snap, snap_vals,
                   pc_worker, queue_slot, w_frame, w_tracks, pub_tracks, pub_vals, taken, filtered, fault>>

\* self._thread.join(timeout=2.0) returns because the thread ended
Join ==
    /\ pc_driver = "join"
    /\ pc_worker = "exited"
    /\ pc_driver' = "done"
    /\ UNCHANGED <<managerVars, apiVars, configVars, matcherVars, logVars, ioVars, storeVars, now, trackerVars, observerVars, workerVars,
                   pipeline_camera_id, max_frames, show, frame_count, d_frame,
                   last_heartbeat_time, snap, snap_vals>>

\* self._thread.join(timeout=2.0) returns because the timeout ran out
JoinTimeout ==
    /\ pc_driver = "join"
    /\ pc_worker # "exited"
    /\ pc_driver' = "done"
    /\ UNCHANGED <<managerVars, apiVars, configVars, matcherVars, logVars, ioVars, storeVars, now, trackerVars, observerVars, workerVars,
                   pipeline_camera_id, max_frames, show, frame_count, d_frame,
                   last_heartbeat_time, snap, snap_vals>>

\* while self._running
WorkerLoop ==
    /\ pc_worker = "loop"
    /\ pc_worker' = IF running THEN "get" ELSE "exited"
    /\ UNCHANGED <<managerVars, apiVars, configVars, matcherVars, logVars, ioVars, storeVars, now, trackerVars, observerVars, driverVars,
                   running, queue_slot, w_frame, w_tracks, pub_tracks, pub_vals, taken, filtered, fault>>

\* DetectionWorker._get_frame: queue.get(timeout=0.01), or queue.Empty
WorkerGet ==
    /\ pc_worker = "get"
    /\ IF Len(queue_slot) > 0
       THEN /\ w_frame' = Head(queue_slot)
            /\ queue_slot' = after_get(queue_slot)
            /\ taken' = taken \cup {Head(queue_slot).n}
            /\ pc_worker' = "track"
       ELSE /\ pc_worker' = "loop"
            /\ UNCHANGED <<w_frame, queue_slot, taken>>
    /\ UNCHANGED <<managerVars, apiVars, configVars, matcherVars, logVars, ioVars, storeVars, now, trackerVars, observerVars, driverVars,
                   running, w_tracks, pub_tracks, pub_vals, filtered, fault>>

\* _process_frame: detect, filter, self._tracker.update(detections),
\* tracks = list(self._tracker.tracks.values())
WorkerTrack ==
    /\ pc_worker = "track"
    /\ \E r \in {tracker_update(objs, tracks, next_id, filter(w_frame.dets), max_lost,
                                use_prediction, iou_threshold, now)} :
          /\ objs' = Live(r.objs, Referenced(r.tracks, r.tracks, pub_tracks, snap))
          /\ tracks' = r.tracks
          /\ next_id' = r.next_id
          /\ w_tracks' = r.tracks
    /\ pc_worker' = "process"
    /\ UNCHANGED <<managerVars, apiVars, configVars, matcherVars, logVars, ioVars, storeVars, now, max_lost, use_prediction, iou_threshold, observerVars,
                   driverVars, running, queue_slot, w_frame, pub_tracks, pub_vals, taken, filtered, fault>>

\* _process_frame: self._track_processor.process(tracks)
WorkerProcess ==
    /\ pc_worker = "process"
    /\ objs' = process(objs, w_tracks)
    /\ Processed(classified(objs, w_tracks), w_tracks, FALSE)
    /\ pc_worker' = "publish"
    /\ UNCHANGED <<managerVars, apiVars, configVars, matcherVars, diskVars, readerVars, beatVars, pending, calls, stopped_at, now, tracks,
                   next_id, max_lost, use_prediction,
                   iou_threshold, observerVars, driverVars,
                   running, queue_slot, w_frame, w_tracks, pub_tracks, pub_vals, taken, filtered, fault>>

\* DetectionWorker._update_tracks
WorkerPublish ==
    /\ pc_worker = "publish"
    /\ pub_tracks' = w_tracks
    /\ pub_vals' = [id \in Range(w_tracks) |-> objs[id]]
    /\ objs' = Live(objs, Referenced(tracks, w_tracks, w_tracks, snap))
    /\ pc_worker' = "loop"
    /\ UNCHANGED <<managerVars, apiVars, configVars, matcherVars, logVars, ioVars, storeVars, now, tracks, next_id, max_lost, use_prediction, iou_threshold,
                   observerVars, driverVars, running, queue_slot, w_frame, w_tracks, taken, filtered, fault>>

NextPipeline ==
    \/ RegisterStart
    \/ OpenVideo
    \/ OpenVideoFails
    \/ CreateWorkerFails
    \/ StartWorker
    \/ \E dets \in PipelineInputs : ReadFrame(dets)
    \/ EndOfSource
    \/ Submit
    \/ DropGet
    \/ DropPut
    \/ GetTracks
    \/ Draw
    \/ Quit
    \/ Heartbeat
    \/ Interrupt
    \/ RegisterStop
    \/ StopWorker
    \/ Join
    \/ JoinTimeout
    \/ WorkerLoop
    \/ WorkerGet
    \/ WorkerTrack
    \/ WorkerProcess
    \/ WorkerPublish
    \/ Tick(StartTime + PipelineTicks * TickSeconds)

InitPipelineSpec ==
    /\ InitTracker(1, TRUE)
    /\ InitStore
    /\ \E cfg \in RunConfigs : InitPipeline(cfg)
    /\ InitLog
    /\ InitManager(NoArgs, MissingFile, "unused")
    /\ InitApi
    /\ InitConfig(FALSE, default_coverage)
    /\ InitMatcher
    /\ now = StartTime

SpecPipeline == InitPipelineSpec /\ [][NextPipeline]_vars

----------------------------------------------------------------------------
(* The worker on its own: DetectionWorker._process_frame fed with          *)
(* arbitrary frames, against a database that may refuse inserts.           *)

\* The id the detector's class table gives a class name.
ClassId(cls_name) == CHOOSE k \in DOMAIN names : names[k] = cls_name

\* A car and a train away from the persons, above the vehicle threshold.
DetCar == <<RInt(20), RInt(0), RInt(24), RInt(4), ClassId("car"), 90>>
DetTrain == <<RInt(30), RInt(0), RInt(34), RInt(4), ClassId("train"), 90>>

LogInputs == {<<DetA>>, <<DetB>>, <<DetA, DetCar, DetTrain>>}

\* DetectionWorker._process_frame(frame): filter, Tracker.update,
\* TrackProcessor.process, _update_tracks.
ProcessFrame(dets, sqlite_error) ==
    /\ process_no < MaxLogFrames
    /\ sqlite_error => process_no < MaxDbFailures
    /\ \E r \in {tracker_update(objs, tracks, next_id, filter(dets), max_lost,
                                use_prediction, iou_threshold, now)} :
          /\ objs' = Live(process(r.objs, r.tracks), Range(r.tracks))
          /\ tracks' = r.tracks
          /\ next_id' = r.next_id
          /\ w_tracks' = r.tracks
          /\ pub_tracks' = r.tracks
          /\ pub_vals' = [id \in Range(r.tracks) |-> process(r.objs, r.tracks)[id]]
          /\ Processed(classified(r.objs, r.tracks), r.tracks, sqlite_error)
    /\ UNCHANGED <<managerVars, apiVars, configVars, matcherVars, diskVars, readerVars, beatVars, pending, calls, stopped_at, now, max_lost,
                   use_prediction, iou_threshold, observerVars, driverVars, running, pc_worker,
                   queue_slot, w_frame, taken, filtered, fault>>

\* time.time() advances by half a periodic interval, through one interval.
LogTick ==
    /\ now + PERIODIC_LOG_INTERVAL \div 2 <= StartTime + PERIODIC_LOG_INTERVAL
    /\ now' = now + PERIODIC_LOG_INTERVAL \div 2
    /\ UNCHANGED <<managerVars, apiVars, configVars, matcherVars, logVars, ioVars, storeVars, trackerVars, observerVars, driverVars, workerVars>>

NextLogging ==
    \/ \E dets \in LogInputs, sqlite_error \in BOOLEAN : ProcessFrame(dets, sqlite_error)
    \/ LogTick

InitLoggingSpec ==
    /\ InitTracker(1, TRUE)
    /\ InitStore
    /\ InitPipeline(NoRun)
    /\ InitLog
    /\ InitManager(NoArgs, MissingFile, "unused")
    /\ InitApi
    /\ InitConfig(FALSE, default_coverage)
    /\ InitMatcher
    /\ now = StartTime

SpecLogging == InitLoggingSpec /\ [][NextLogging]_vars

----------------------------------------------------------------------------
(* The confidence filter on its own: FrameDetector.filter applied to the   *)
(* detections of one frame.                                                *)

\* A class id the detector's class table does not know.
UnknownClassId == 99

\* A detection of a class with a score, in percent.
Scored(cls_id, score) == <<RInt(0), RInt(0), RInt(4), RInt(4), cls_id, score>>

\* Persons and trains below, at and above their thresholds, the other vehicle
\* classes, a class without threshold and an unknown class id.
FilterDets ==
    {Scored(ClassId("person"), sc) : sc \in {conf_person - 1, conf_person, 50}}
    \cup {Scored(ClassId("train"), sc) : sc \in {50, conf_train - 1, conf_train}}
    \cup {Scored(ClassId("truck"), conf_train), Scored(ClassId("bus"), conf_train - 1),
          Scored(ClassId("car"), 50), Scored(ClassId("bicycle"), conf_train),
          Scored(UnknownClassId, conf_train)}

RECURSIVE Lists(_, _)
Lists(S, n) ==
    IF n = 0 THEN {<<>>}
    ELSE Lists(S, n - 1) \cup {Append(l, x) : l \in {m \in Lists(S, n - 1) : Len(m) = n - 1}, x \in S}

FilterInputs == Lists(FilterDets, MaxFilterLen)

\* _process_frame: detections = self._detector.filter(detections)
FilterFrame ==
    /\ pc_worker = "filter"
    /\ filtered' = filter(w_frame.dets)
    /\ pc_worker' = "track"
    /\ UNCHANGED <<managerVars, apiVars, configVars, matcherVars, logVars, ioVars, storeVars, now, trackerVars, observerVars, driverVars,
                   running, queue_slot, w_frame, w_tracks, pub_tracks, pub_vals, taken, fault>>

NextFilter == FilterFrame

InitFilterSpec ==
    /\ InitTracker(1, TRUE)
    /\ InitStore
    /\ InitDriver
    /\ \E dets \in FilterInputs : InitWorker([n |-> 1, dets |-> dets], "filter")
    /\ InitLog
    /\ InitManager(NoArgs, MissingFile, "unused")
    /\ InitApi
    /\ InitConfig(FALSE, default_coverage)
    /\ InitMatcher
    /\ now = StartTime

SpecFilter == InitFilterSpec /\ [][NextFilter]_vars

----------------------------------------------------------------------------
(* The worker's loop against a detector and a classifier that may raise.   *)

\* FrameDetector.detect: what the model predicted, or, when predict raises,
\* the warning logged and no detection at all.
detect_stale(predictions, predict_raises) == predictions
detect(predictions, predict_raises) == IF predict_raises THEN <<>> ELSE predictions

\* ActivityClassifier.update_tracks when _classify raises for the track at
\* position failing of the list: the loop is left there, the tracks before it
\* classified and the others as they were.
update_tracks_until(heap, ids, failing) ==
    [id \in DOMAIN heap |->
        IF \E k \in 1..(failing - 1) : ids[k] = id THEN classify(heap[id]) ELSE heap[id]]

\* TrackProcessor._classify when the classifier raises at position failing:
\* every listed track is named first.
classify_until(heap, ids, failing) ==
    update_tracks_until(
        [id \in DOMAIN heap |->
            IF id \in Range(ids)
            THEN [heap[id] EXCEPT !.cls_name = get_class_name(names, heap[id].cls)]
            ELSE heap[id]],
        ids, failing)

FaultInputs == {<<DetA>>, <<DetB>>, <<DetA, DetTrain>>}

\* One turn of DetectionWorker._loop on a frame for which the model predicts
\* predictions.  predict_raises: det_model.predict raises.  failing: the
\* position in the track list of the track whose classification raises, 0
\* for none; nothing between _classify and the thread's top frame catches it,
\* so the thread ends before the logging, the save and _update_tracks.
LoopTurn(predictions, predict_raises, failing) ==
    /\ pc_worker = "loop"
    /\ w_frame.n < MaxFaultFrames
    /\ w_frame' = [n |-> w_frame.n + 1, dets |-> predictions]
    /\ taken' = taken \cup {w_frame.n + 1}
    /\ filtered' = filter(detect(predictions, predict_raises))
    /\ fault' = [detect |-> predict_raises, classify |-> failing]
    /\ \E r \in {tracker_update(objs, tracks, next_id,
                                filter(detect(predictions, predict_raises)), max_lost,
                                use_prediction, iou_threshold, now)} :
          /\ failing <= Len(r.tracks)
          /\ tracks' = r.tracks
          /\ next_id' = r.next_id
          /\ w_tracks' = r.tracks
          /\ IF failing = 0
             THEN /\ objs' = Live(process(r.objs, r.tracks), Range(r.tracks))
                  /\ pub_tracks' = r.tracks
                  /\ pub_vals' = [id \in Range(r.tracks) |-> process(r.objs, r.tracks)[id]]
                  /\ Processed(classified(r.objs, r.tracks), r.tracks, FALSE)
                  /\ pc_worker' = "loop"
             ELSE /\ objs' = Live(classify_until(r.objs, r.tracks, failing),
                                  Range(r.tracks) \cup Range(pub_tracks))
                  /\ pc_worker' = "raised"
                  /\ UNCHANGED <<pub_tracks, pub_vals, logVars, file, file_kind>>
    /\ UNCHANGED <<managerVars, apiVars, configVars, matcherVars, diskVars, readerVars, beatVars, pending, calls, stopped_at, now, max_lost,
                   use_prediction, iou_threshold, observerVars, driverVars, running,
                   queue_slot>>

NextFaults ==
    \E predictions \in FaultInputs, predict_raises \in BOOLEAN, failing \in 0..2 :
        LoopTurn(predictions, predict_raises, failing)

InitFaultsSpec ==
    /\ InitTracker(1, TRUE)
    /\ InitStore
    /\ InitDriver
    /\ InitWorker(NoFrame, "loop")
    /\ InitLog
    /\ InitManager(NoArgs, MissingFile, "unused")
    /\ InitApi
    /\ InitConfig(FALSE, default_coverage)
    /\ InitMatcher
    /\ now = StartTime

SpecFaults == InitFaultsSpec /\ [][NextFaults]_vars

----------------------------------------------------------------------------
(* The activity classifier applied to person tracks of given histories.    *)

\* ActivityClassifier.update_tracks
update_tracks(heap, ids) ==
    [id \in DOMAIN heap |-> IF id \in Range(ids) THEN classify(heap[id]) ELSE heap[id]]

\* Centers on one line, at the abscissas xs.
Points(xs) == [i \in DOMAIN xs |-> <<xs[i], 25>>]

\* Histories of up to MaxHistoryLen centers that stay, creep by a pixel or
\* jump by ten.
ShortHistories ==
    {Points(xs) : xs \in {l \in Lists({0, 1, 10, 20}, MaxHistoryLen) : Len(l) >= 1}}

\* A walk of m steps of 10 px followed by k frames on the spot.
WalkThenStay(m, k) ==
    Points([i \in 1..(1 + m + k) |-> IF i <= m + 1 THEN 10 * (i - 1) ELSE 10 * m])

LongHistories == {WalkThenStay(m, k) : m \in 0..MaxWalk, k \in 0..MaxStay}

\* A person track, named by TrackProcessor._classify, with the history given.
PersonWith(history) ==
    [NewTrack(1, BoxOf(DetA), PersonClass, 90, StartTime)
        EXCEPT !.history = history, !.cls_name = get_class_name(names, PersonClass)]

\* self._classifier.update_tracks(tracks)
UpdateTracks ==
    /\ pc_worker = "classify"
    /\ objs' = update_tracks(objs, tracks)
    /\ pc_worker' = "log"
    /\ UNCHANGED <<managerVars, apiVars, configVars, matcherVars, logVars, ioVars, storeVars, now, tracks, next_id, max_lost, use_prediction,
                   iou_threshold, observerVars, driverVars, running, queue_slot, w_frame,
                   w_tracks, pub_tracks, pub_vals, taken, filtered, fault>>

NextSpeed == UpdateTracks

InitSpeedSpec ==
    /\ \E history \in ShortHistories \cup LongHistories : objs = (1 :> PersonWith(history))
    /\ tracks = <<1>>
    /\ next_id = 2
    /\ max_lost = 1
    /\ use_prediction = TRUE
    /\ iou_threshold = Rat(2, 10)
    /\ InitObservers
    /\ InitStore
    /\ InitDriver
    /\ InitWorker(NoFrame, "classify")
    /\ InitLog
    /\ InitManager(NoArgs, MissingFile, "unused")
    /\ InitApi
    /\ InitConfig(FALSE, default_coverage)
    /\ InitMatcher
    /\ now = StartTime

SpecSpeed == InitSpeedSpec /\ [][NextSpeed]_vars

----------------------------------------------------------------------------
(* The queries of the activity log (web/api/utils/database.py).  A row's   *)
(* id is its position in the table: AUTOINCREMENT, and nothing deletes.    *)

\* strftime("... %M:%S") of a time within the hour: zero-padded digits.
strftime(t) == <<(t \div 600) % 6, (t \div 60) % 10, (t % 60) \div 10, t % 10>>

\* SQLite's comparison of two TEXT values: the first differing character
\* decides, and a proper prefix comes first.
text_less(a, b) ==
    \/ \E i \in DOMAIN a \cap DOMAIN b :
          a[i] < b[i] /\ \A j \in 1..(i - 1) : a[j] = b[j]
    \/ Len(a) < Len(b) /\ \A j \in DOMAIN a : a[j] = b[j]

\* if class_filter: (a filter that is None or empty adds no condition)
truthy(value) == value # None /\ value # ""

\* The WHERE clause _build_filter_query builds, applied to a row.
build_filter_query(row, class_filter, activity_filter, camera_id) ==
    /\ truthy(class_filter) => row.class = class_filter
    /\ truthy(activity_filter) => row.activity = activity_filter
    /\ truthy(camera_id) => row.camera_id = camera_id

\* The ids of the rows the WHERE clause selects.
selected(rows, class_filter, activity_filter, camera_id) ==
    {i \in DOMAIN rows :
        build_filter_query(rows[i], class_filter, activity_filter, camera_id)}

\* ORDER BY timestamp DESC, id DESC: row i comes before row j.
sql_before_by_id(rows, i, j) == j < i
sql_before(rows, i, j) ==
    \/ text_less(rows[j].timestamp, rows[i].timestamp)
    \/ rows[j].timestamp = rows[i].timestamp /\ j < i

\* The ids in the order of the ORDER BY clause.
RECURSIVE order_by(_, _)
order_by(rows, ids) ==
    IF ids = {} THEN <<>>
    ELSE LET first == CHOOSE i \in ids : \A j \in ids \ {i} : sql_before(rows, i, j)
         IN  <<first>> \o order_by(rows, ids \ {first})

\* LIMIT ? OFFSET ?  (a negative LIMIT is no limit, a negative OFFSET is 0)
limit_offset(seq, limit, offset) ==
    LET from == IF offset < 0 THEN 1 ELSE offset + 1
        upto == IF limit < 0 \/ from - 1 + limit > Len(seq) THEN Len(seq)
                ELSE from - 1 + limit
    IN  SubSeq(seq, from, upto)

\* _rows_to_dicts
rows_to_dicts(rows, ids) ==
    [k \in DOMAIN ids |->
        [id |-> ids[k], track_id |-> rows[ids[k]].track_id, class |-> rows[ids[k]].class,
         activity |-> rows[ids[k]].activity, confidence |-> rows[ids[k]].confidence,
         timestamp |-> rows[ids[k]].timestamp, camera_id |-> rows[ids[k]].camera_id]]

get_logs(rows, limit, offset, class_filter, activity_filter, camera_id) ==
    rows_to_dicts(rows,
        limit_offset(order_by(rows, selected(rows, class_filter, activity_filter, camera_id)),
                     limit, offset))

get_log_count(rows, class_filter, activity_filter, camera_id) ==
    Cardinality(selected(rows, class_filter, activity_filter, camera_id))

\* What the writers log: the class with an activity of its classifier.
LoggedKinds ==
    {[track_id |-> 1, class_name |-> "person", activity |-> "standing", confidence |-> 90],
     [track_id |-> 1, class_name |-> "person", activity |-> "moving", confidence |-> 90],
     [track_id |-> 2, class_name |-> "train", activity |-> "stopped", confidence |-> 85]}

\* The times of the inserts: the last second of a minute and the next one.
LogTimes == {59, 60}

\* The parameters of the queries.
ClassFilters == {None, "person"}
ActivityFilters == {None, "moving"}
CameraFilters == {None, "cam1"}
Limits == {1, 2}
Offsets == {0, 1}

\* log_activity(track_id, class_name, activity, confidence, timestamp, camera_id);
\* the answer of an earlier query is of the table as it was, and is dropped.
LogActivity(call, t, camera_id) ==
    /\ Len(logs) < MaxRows
    /\ logs' = log_activity(logs, call, camera_id, strftime(t), FALSE)
    /\ answer' = NoAnswer
    /\ UNCHANGED <<managerVars, apiVars, configVars, matcherVars, last_periodic_log_time, process_no, log_calls, seen, flushes, file_kind,
                   diskVars, reader, beatVars, storeVars, now, trackerVars, observerVars,
                   driverVars, workerVars>>

\* get_logs(limit, offset, class_filter, activity_filter, camera_id)
GetLogs(limit, offset, class_filter, activity_filter, camera_id) ==
    /\ answer = NoAnswer
    /\ answer' = [op |-> "get_logs",
                  args |-> [limit |-> limit, offset |-> offset, class_filter |-> class_filter,
                            activity_filter |-> activity_filter, camera_id |-> camera_id],
                  value |-> get_logs(logs, limit, offset, class_filter, activity_filter,
                                     camera_id)]
    /\ UNCHANGED <<managerVars, apiVars, configVars, matcherVars, logVars, file_kind, diskVars, reader, beatVars, storeVars, now, trackerVars,
                   observerVars, driverVars, workerVars>>

\* get_log_count(class_filter, activity_filter, camera_id)
GetLogCount(class_filter, activity_filter, camera_id) ==
    /\ answer = NoAnswer
    /\ answer' = [op |-> "get_log_count",
                  args |-> [class_filter |-> class_filter,
                            activity_filter |-> activity_filter, camera_id |-> camera_id],
                  value |-> get_log_count(logs, class_filter, activity_filter, camera_id)]
    /\ UNCHANGED <<managerVars, apiVars, configVars, matcherVars, logVars, file_kind, diskVars, reader, beatVars, storeVars, now, trackerVars,
                   observerVars, driverVars, workerVars>>

\* The caller has used the answer.
Return ==
    /\ answer # NoAnswer
    /\ answer' = NoAnswer
    /\ UNCHANGED <<managerVars, apiVars, configVars, matcherVars, logVars, file_kind, diskVars, reader, beatVars, storeVars, now, trackerVars,
                   observerVars, driverVars, workerVars>>

NextQuery ==
    \/ Return
    \/ \E call \in LoggedKinds, t \in LogTimes, camera_id \in {DEFAULT_CAMERA_ID, "cam1"} :
          LogActivity(call, t, camera_id)
    \/ \E limit \in Limits, offset \in Offsets, class_filter \in ClassFilters,
          activity_filter \in ActivityFilters, camera_id \in CameraFilters :
          GetLogs(limit, offset, class_filter, activity_filter, camera_id)
    \/ \E class_filter \in ClassFilters, activity_filter \in ActivityFilters,
          camera_id \in CameraFilters :
          GetLogCount(class_filter, activity_filter, camera_id)

InitQuerySpec ==
    /\ InitTracker(1, TRUE)
    /\ InitStore
    /\ InitPipeline(NoRun)
    /\ InitLog
    /\ InitManager(NoArgs, MissingFile, "unused")
    /\ InitApi
    /\ InitConfig(FALSE, default_coverage)
    /\ InitMatcher
    /\ now = StartTime

SpecQuery == InitQuerySpec /\ [][NextQuery]_vars

----------------------------------------------------------------------------
(* The camera manager's main (services/camera_manager.py): the command     *)
(* line, the configuration file, the camera processes and the exit code.   *)

\* The command lines explored.  --config has a default, so it is empty only
\* when given so.
ConfigPath == "/app/config/cameras.json"
CommandLines ==
    [create_config : {None, "cameras.json"}, camera : {None, "cam1"},
     source : {None, "video.mp4"}, config : {"", ConfigPath}, show : BOOLEAN]

\* What json.load gives for the files explored: objects of no, one and two
\* cameras, and arrays.
JsonValues ==
    {EmptyObject, File("object", {"cam1"}, 1), File("object", {"cam1", "cam2"}, 2),
     File("array", {}, 0), File("array", {}, 1)}

\* The file named by --config: not there, not JSON, or JSON.
ConfigFiles == {MissingFile, InvalidJson} \cup JsonValues

\* Python's truth value of a string and of a loaded JSON value.
is_set(string) == string # None /\ string # ""
truth(json) == json.size > 0

\* _validate_args
validate_args(a) == (is_set(a.camera) /\ is_set(a.source)) \/ is_set(a.config)

\* CameraManager._create_single_camera_config
create_single_camera_config(camera_id, source) == File("object", {camera_id}, 1)

\* CameraManager._load_from_file: no file gives {}, and ConfigLoader.load
\* lets json.JSONDecodeError through.
load_from_file(f) ==
    IF f.type = "missing" THEN [raised |-> FALSE, value |-> EmptyObject]
    ELSE IF f.type = "invalid" THEN [raised |-> TRUE, value |-> NotLoaded]
         ELSE [raised |-> FALSE, value |-> f]

\* CameraManager.load_cameras
load_cameras(a, f) ==
    IF is_set(a.camera) /\ is_set(a.source)
    THEN [raised |-> FALSE, value |-> create_single_camera_config(a.camera, a.source)]
    ELSE IF is_set(a.config) THEN load_from_file(f)
         ELSE [raised |-> FALSE, value |-> EmptyObject]

\* The process ends: main returned (code 0), or an exception nobody caught
\* ended it (code 1).
Exits(code) ==
    /\ pc_manager' = "exited"
    /\ exit_code' = code

\* main with --create-config: the default file is written, main returns.
CreateDefault ==
    /\ pc_manager = "main"
    /\ is_set(argv.create_config)
    /\ Exits(0)
    /\ UNCHANGED <<pipelineVars, argv, config_file, loaded, children>>

\* main: _validate_args, and the return when it fails.
ValidateArgs ==
    /\ pc_manager = "main"
    /\ ~is_set(argv.create_config)
    /\ IF validate_args(argv)
       THEN pc_manager' = "load" /\ UNCHANGED exit_code
       ELSE Exits(0)
    /\ UNCHANGED <<pipelineVars, argv, config_file, loaded, children>>

\* main: cameras = manager.load_cameras(args); if not cameras: return
LoadCameras ==
    /\ pc_manager = "load"
    /\ \E r \in {load_cameras(argv, config_file)} :
          IF r.raised THEN Exits(1) /\ UNCHANGED loaded
          ELSE IF ~truth(r.value) THEN Exits(0) /\ loaded' = r.value
               ELSE pc_manager' = "start" /\ loaded' = r.value /\ UNCHANGED exit_code
    /\ UNCHANGED <<pipelineVars, argv, config_file, children>>

\* start_cameras on something that has no items(): AttributeError.
StartFails ==
    /\ pc_manager = "start"
    /\ loaded.type # "object"
    /\ Exits(1)
    /\ UNCHANGED <<pipelineVars, argv, config_file, loaded, children>>

\* start_cameras: the process of the next camera is started.
StartCamera(camera_id) ==
    /\ pc_manager = "start"
    /\ loaded.type = "object"
    /\ camera_id \in loaded.ids \ DOMAIN children
    /\ children' = (camera_id :> "alive") @@ children
    /\ pc_manager' = IF loaded.ids = DOMAIN children \cup {camera_id}
                     THEN "wait" ELSE "start"
    /\ UNCHANGED <<pipelineVars, argv, config_file, loaded, exit_code>>

\* CameraRunner.run returns in a camera process (it catches every Exception).
CameraEnds(camera_id) ==
    /\ camera_id \in DOMAIN children
    /\ children[camera_id] = "alive"
    /\ children' = [children EXCEPT ![camera_id] = "ended"]
    /\ UNCHANGED <<pipelineVars, argv, config_file, pc_manager, loaded, exit_code>>

\* wait_for_completion: every process joined, main returns.
WaitAll ==
    /\ pc_manager = "wait"
    /\ \A c \in DOMAIN children : children[c] = "ended"
    /\ Exits(0)
    /\ UNCHANGED <<pipelineVars, argv, config_file, loaded, children>>

\* SIGINT or SIGTERM once setup_signals has run: stop_all terminates the
\* camera processes and calls sys.exit(0).
StopAll ==
    /\ pc_manager \in {"load", "start", "wait"}
    /\ children' = [c \in DOMAIN children |-> "ended"]
    /\ pc_manager' = "stopped"
    /\ exit_code' = 0
    /\ UNCHANGED <<pipelineVars, argv, config_file, loaded>>

NextManager ==
    \/ CreateDefault
    \/ ValidateArgs
    \/ LoadCameras
    \/ StartFails
    \/ \E camera_id \in {"cam1", "cam2"} : StartCamera(camera_id)
    \/ \E camera_id \in {"cam1", "cam2"} : CameraEnds(camera_id)
    \/ WaitAll
    \/ StopAll

InitManagerSpec ==
    /\ InitTracker(1, TRUE)
    /\ InitStore
    /\ InitPipeline(NoRun)
    /\ InitLog
    /\ \E a \in CommandLines, f \in ConfigFiles : InitManager(a, f, "main")
    /\ InitApi
    /\ InitConfig(FALSE, default_coverage)
    /\ InitMatcher
    /\ now = StartTime

SpecManager == InitManagerSpec /\ [][NextManager]_vars

----------------------------------------------------------------------------
(* The readers of the sync store (get_running_camera_ids,                  *)
(* get_all_camera_tracks, get_camera_stats) over the files they may find.  *)
(* get_camera_stats reads the file twice; between its reads time passes    *)
(* and the file may change.                                                *)

\* The times a record may carry and the times of the reads: around the
\* heartbeat timeout after each record time, and around the end of the stop
\* grace.
RecordTimes == {StartTime, StartTime + STOP_TIMEOUT}
ReadTimes ==
    {t + a : t \in RecordTimes, a \in {0, HEARTBEAT_TIMEOUT - 1, HEARTBEAT_TIMEOUT}}
    \cup {StartTime + STOP_TIMEOUT - 1}

\* A dict with key k when vs holds a value for it, empty otherwise.
Opt(k, vs) == [x \in {y \in {k} : vs # {}} |-> CHOOSE v \in vs : TRUE]

TrainData == [track_id |-> 2, class_name |-> "train", activity |-> "moving",
              confidence |-> 90]
NoClassData == [track_id |-> 3]
SavedLists == {<<>>, <<OneTrackData, TrainData, OneTrackData>>, <<TrainData, NoClassData>>}

\* The camera data explored: each key present or not, each test of
\* _is_camera_running on either side.
CameraRecords ==
    {Opt("status", s) @@ Opt("stop_time", st) @@ Opt("heartbeat", hb) @@ Opt("tracks", tr) :
        s \in {{}, {"running"}, {"stopped"}},
        st \in {{}, {StartTime}},
        hb \in {{}, {0}} \cup {{t} : t \in RecordTimes},
        tr \in {{}} \cup {{l} : l \in SavedLists}}

\* What a pipeline of the default camera leaves after a start and a save.
HealthyRecord ==
    save_camera_tracks(register_camera_start(EmptyDoc, DEFAULT_CAMERA_ID, StartTime),
                       DEFAULT_CAMERA_ID, <<OneTrackData>>, StartTime)[DEFAULT_CAMERA_ID]

Documents ==
    {Opt("cam1", a) @@ Opt(DEFAULT_CAMERA_ID, b) :
        a \in {{}} \cup {{r} : r \in CameraRecords}, b \in {{}, {HealthyRecord}}}

record_times(doc) ==
    UNION {{Get(doc[c], "heartbeat", 0), Get(doc[c], "stop_time", 0)} : c \in DOMAIN doc}

\* get_running_camera_ids()
ReadRunningIds ==
    /\ reader = NoReader
    /\ \E r \in {running_ids(read_file(file_kind, file), now)} :
          answer' = [op |-> "get_running_camera_ids", at |-> now, kind |-> file_kind,
                     raised |-> r.raised, value |-> r.value]
    /\ UNCHANGED <<managerVars, apiVars, configVars, matcherVars, logVars, file_kind, diskVars, reader, beatVars, storeVars, now, trackerVars,
                   observerVars, driverVars, workerVars>>

\* get_all_camera_tracks()
ReadAllTracks ==
    /\ reader = NoReader
    /\ \E r \in {get_all_camera_tracks(read_file(file_kind, file), now)} :
          answer' = [op |-> "get_all_camera_tracks", at |-> now, kind |-> file_kind,
                     raised |-> r.raised, value |-> r.value]
    /\ UNCHANGED <<managerVars, apiVars, configVars, matcherVars, logVars, file_kind, diskVars, reader, beatVars, storeVars, now, trackerVars,
                   observerVars, driverVars, workerVars>>

\* get_camera_stats(camera_id): running_cameras = get_running_camera_ids(), and
\* the return when camera_id is not among them.
StatsFirstRead(camera_id) ==
    /\ reader = NoReader
    /\ \E r \in {running_ids(read_file(file_kind, file), now)} :
          IF r.raised \/ camera_id \notin r.value
          THEN /\ answer' = [op |-> "get_camera_stats", camera_id |-> camera_id,
                             at1 |-> now, kind1 |-> file_kind, doc1 |-> file,
                             at |-> now, kind |-> file_kind, raised |-> r.raised,
                             value |-> get_camera_stats(r.value, EmptyDoc, camera_id)]
               /\ UNCHANGED reader
          ELSE /\ reader' = [pc |-> "second_read", camera_id |-> camera_id,
                             running_cameras |-> r.value,
                             at1 |-> now, kind1 |-> file_kind, doc1 |-> file]
               /\ answer' = NoAnswer
    /\ UNCHANGED <<managerVars, apiVars, configVars, matcherVars, logVars, file_kind, diskVars, beatVars, storeVars, now, trackerVars,
                   observerVars, driverVars, workerVars>>

\* get_camera_stats: all_tracks = get_all_camera_tracks() and the count.
StatsSecondRead ==
    /\ reader # NoReader
    /\ \E r \in {get_all_camera_tracks(read_file(file_kind, file), now)} :
          answer' = [op |-> "get_camera_stats", camera_id |-> reader.camera_id,
                     at1 |-> reader.at1, kind1 |-> reader.kind1, doc1 |-> reader.doc1,
                     at |-> now, kind |-> file_kind, raised |-> r.raised,
                     value |-> get_camera_stats(reader.running_cameras, r.value,
                                                reader.camera_id)]
    /\ reader' = NoReader
    /\ UNCHANGED <<managerVars, apiVars, configVars, matcherVars, logVars, file_kind, diskVars, beatVars, storeVars, now, trackerVars,
                   observerVars, driverVars, workerVars>>

\* The pipeline of the camera asked about completes a mutation between the
\* two reads of get_camera_stats.
WriterActs(op, camera_id, track_data) ==
    /\ reader # NoReader
    /\ camera_id = reader.camera_id
    /\ calls < MaxInterleaved
    /\ read_file(file_kind, file).is_dict
    /\ calls' = calls + 1
    /\ file' = Written(op, read_file(file_kind, file).data, camera_id, track_data, now)
    /\ file_kind' = "object"
    /\ UNCHANGED <<managerVars, apiVars, configVars, matcherVars, logVars, diskVars, readerVars, beatVars, pending, stopped_at, now,
                   trackerVars, observerVars, driverVars, workerVars>>

\* The file is removed or damaged between the two reads of get_camera_stats.
FileLost(kind) ==
    /\ reader # NoReader
    /\ calls < MaxInterleaved
    /\ kind # "object"
    /\ calls' = calls + 1
    /\ file' = EmptyDoc
    /\ file_kind' = kind
    /\ UNCHANGED <<managerVars, apiVars, configVars, matcherVars, logVars, diskVars, readerVars, beatVars, pending, stopped_at, now,
                   trackerVars, observerVars, driverVars, workerVars>>

\* time.time() advances to the next read time.
ReadTick ==
    /\ \E t \in ReadTimes :
          /\ t > now
          /\ \A u \in ReadTimes : u > now => t <= u
          /\ now' = t
    /\ UNCHANGED <<managerVars, apiVars, configVars, matcherVars, logVars, ioVars, storeVars, trackerVars, observerVars, driverVars,
                   workerVars>>

NextReader ==
    \/ ReadRunningIds
    \/ ReadAllTracks
    \/ \E c \in Cameras : StatsFirstRead(c)
    \/ StatsSecondRead
    \/ \E op \in StoreOps, c \in Cameras : WriterActs(op, c, <<>>)
    \/ \E c \in Cameras : WriterActs("save_camera_tracks", c, <<TrainData>>)
    \/ \E kind \in FileKinds : FileLost(kind)
    \/ ReadTick

InitReaderSpec ==
    /\ InitTracker(MaxLost, TRUE)
    /\ InitCalls
    /\ InitPipeline(NoRun)
    /\ InitLog
    /\ InitManager(NoArgs, MissingFile, "unused")
    /\ InitApi
    /\ InitConfig(FALSE, default_coverage)
    /\ InitMatcher
    /\ file_kind \in FileKinds
    /\ file \in IF file_kind = "object" THEN Documents ELSE {EmptyDoc}
    /\ now \in {t \in ReadTimes : \A u \in record_times(file) : u <= t}

SpecReader == InitReaderSpec /\ [][NextReader]_vars

----------------------------------------------------------------------------
(* The web API's current statistics (web/api/main.py, GET /stats/current, *)
(* and web/api/utils/shared_state.py). The API process holds its own      *)
(* SharedState; nothing in the program calls its update_tracks or clear.  *)

\* The (camera id, track id) pairs of SharedState._tracks.
ActiveTracks(tr) == UNION {{<<c, i>> : i \in DOMAIN tr[c]} : c \in DOMAIN tr}

\* SharedState._get_all_stats: a count per class name met, and 'total'
\* assigned last.
get_all_stats(tr) ==
    LET all == ActiveTracks(tr)
        classes == {tr[p[1]][p[2]].class_name : p \in all}
    IN  [k \in classes \cup {"total"} |->
            IF k = "total" THEN Cardinality(all)
            ELSE Cardinality({p \in all : tr[p[1]][p[2]].class_name = k})]

\* SharedState.get_stats(camera_id = None)
get_stats(tr) == get_all_stats(tr)

\* get_current_stats with the sync store's figures: the sums of
\* get_camera_stats over get_running_camera_ids().
RECURSIVE sum_stats(_, _, _, _)
sum_stats(kind, doc, current_time, ids) ==
    IF ids = {} THEN NoStats
    ELSE LET c == CHOOSE x \in ids : TRUE
             a == stats(kind, doc, current_time, c)
             b == sum_stats(kind, doc, current_time, ids \ {c})
         IN  [person |-> a.person + b.person, train |-> a.train + b.train,
              total |-> a.total + b.total]

get_stats_from_sync(kind, doc, current_time) ==
    sum_stats(kind, doc, current_time, running_ids(read_file(kind, doc), current_time).value)

\* _create_current_stats, without the timestamp.
create_current_stats(person, train, total) ==
    [person_count |-> person, train_count |-> train, total_tracks |-> total]

\* get_current_stats: stats = shared_state.get_stats() and the response.
get_current_stats(tr) ==
    LET s == get_stats(tr)
    IN  create_current_stats(Get(s, "person", 0), Get(s, "train", 0), Get(s, "total", 0))

\* GET /stats/current is answered.
GetCurrentStats ==
    /\ answer' = [op |-> "get_current_stats", at |-> now, kind |-> file_kind, raised |-> FALSE,
                  value |-> get_current_stats(shared_tracks)]
    /\ UNCHANGED <<managerVars, apiVars, configVars, matcherVars, logVars, file_kind, diskVars, reader, beatVars, storeVars, now,
                   trackerVars, observerVars, driverVars, workerVars>>

NextStats ==
    \/ GetCurrentStats
    \/ ReadTick

SpecStats == InitReaderSpec /\ [][NextStats]_vars

----------------------------------------------------------------------------
(* High-visibility clothing (services/pipeline.py, Worker._detect_clothing *)
(* and _has_high_vis).  A frame is its height, its width and the HSV value *)
(* of every pixel (row, column), rows and columns counted from 0.          *)

\* config["clothing"]["high_vis"]
clothing_h_min == 5
clothing_h_max == 35
clothing_s_min == 100
clothing_v_min == 100

\* The frames of the camera: FrameRows by FrameCols pixels.
FrameRows == 4
FrameCols == 8

\* An orange pixel, and pixels that fail the test on hue, saturation or value.
Vest == [h |-> 20, s |-> 150, v |-> 150]
Green == [h |-> 60, s |-> 150, v |-> 150]
Pale == [h |-> 20, s |-> 50, v |-> 150]
Dark == [h |-> 20, s |-> 150, v |-> 50]

\* The frame whose pixels are Vest in the columns vest_cols of row 0, and
\* `other` elsewhere.
Image(vest_cols, other) ==
    [rows |-> FrameRows, cols |-> FrameCols,
     px |-> [p \in (0..(FrameRows - 1)) \X (0..(FrameCols - 1)) |->
                IF p[1] = 0 /\ p[2] \in vest_cols THEN Vest ELSE other]]

\* (h >= h_min) & (h <= h_max) & (s >= s_min) & (v >= v_min)
in_mask(px) ==
    /\ px.h >= clothing_h_min /\ px.h <= clothing_h_max
    /\ px.s >= clothing_s_min
    /\ px.v >= clothing_v_min

\* Where a slice bound lands on an axis of n entries: a negative bound counts
\* from the end, and the result is clipped to 0..n.
slice_bound(k, n) ==
    IF k < 0 THEN (IF k + n < 0 THEN 0 ELSE k + n) ELSE (IF k > n THEN n ELSE k)

\* The indices a[from:to] selects on an axis of n entries.
sliced(from, to, n) == {i \in 0..(n - 1) : slice_bound(from, n) <= i /\ i < slice_bound(to, n)}

\* frame[y_from:y_to, x_from:x_to]: the pixels of the view.
crop(frame, y_from, y_to, x_from, x_to) ==
    sliced(y_from, y_to, frame.rows) \X sliced(x_from, x_to, frame.cols)

\* Worker._has_high_vis on a view: False when it is empty, else
\* mask.sum() / (mask.size + 1e-6) > clothing_coverage.  With a coverage of k
\* hundredths and whole numbers of pixels that is 100 * sum > k * size.
has_high_vis(frame, view, coverage) ==
    IF view = {} THEN FALSE
    ELSE 100 * Cardinality({p \in view : in_mask(frame.px[p])}) > coverage * Cardinality(view)

\* The label Worker._detect_clothing gives a track.
clothing_of(frame, track, coverage) ==
    IF track.cls_name # "person" THEN None
    ELSE LET x1 == RTrunc(track.bbox[1])
             y1 == RTrunc(track.bbox[2])
             x2 == RTrunc(track.bbox[3])
             y2 == RTrunc(track.bbox[4])
         IN  IF x2 <= x1 \/ y2 <= y1 THEN "unknown"
             ELSE IF has_high_vis(frame, crop(frame, y1, y1 + (45 * (y2 - y1)) \div 100, x1, x2),
                                  coverage)
                  THEN "high-vis" ELSE "none"

\* Worker._detect_clothing
detect_clothing(frame, heap, ids, skip, coverage) ==
    IF skip THEN heap
    ELSE [id \in DOMAIN heap |->
            IF id \in Range(ids)
            THEN [heap[id] EXCEPT !.clothing = clothing_of(frame, heap[id], coverage)]
            ELSE heap[id]]

\* Worker._classify
worker_classify(heap, ids) == classified(heap, ids)

\* A person box of no width, and a train inside the frame.
DetFlat == Det(3, 3)
DetTrainNear == <<RInt(4), RInt(0), RInt(8), RInt(4), ClassId("train"), 90>>

\* What the detector finds in a frame, and what the frame shows.
ClothingInputs == {<<>>, <<DetA>>, <<DetB>>, <<DetFlat>>, <<DetA, DetTrainNear>>}
Images ==
    {Image({}, Green), Image({0, 1}, Pale), Image({1, 2, 3}, Dark), Image({2, 3}, Green),
     Image(0..(FrameCols - 1), Green)}
Coverages == {default_coverage, 50}

\* Frames the worker handles in the runs explored.
MaxClothingFrames == 3

\* One turn of Worker._loop: a frame is taken, detected, filtered, tracked,
\* classified, labelled and published.
Worker_loop(predictions, image) ==
    /\ pc_worker = "loop"
    /\ w_frame.n < MaxClothingFrames
    /\ w_frame' = [n |-> w_frame.n + 1, dets |-> predictions, image |-> image]
    /\ taken' = taken \cup {w_frame.n + 1}
    /\ filtered' = filter(predictions)
    /\ \E r \in {tracker_update(objs, tracks, next_id, filter(predictions), max_lost,
                                use_prediction, iou_threshold, now)} :
          \E heap \in {detect_clothing(image, worker_classify(r.objs, r.tracks), r.tracks,
                                       skip_clothing, clothing_coverage)} :
              /\ tracks' = r.tracks
              /\ next_id' = r.next_id
              /\ w_tracks' = r.tracks
              /\ objs' = Live(heap, Range(r.tracks))
              /\ pub_tracks' = r.tracks
              /\ pub_vals' = [id \in Range(r.tracks) |-> heap[id]]
    /\ UNCHANGED <<managerVars, apiVars, configVars, matcherVars, logVars, ioVars, storeVars, now, max_lost,
                   use_prediction, iou_threshold, observerVars, driverVars, running, pc_worker,
                   queue_slot, fault>>

NextClothing ==
    \E predictions \in ClothingInputs, image \in Images : Worker_loop(predictions, image)

InitClothingSpec ==
    /\ InitTracker(MaxLost, TRUE)
    /\ InitStore
    /\ InitDriver
    /\ InitWorker(NoFrame, "loop")
    /\ InitLog
    /\ InitManager(NoArgs, MissingFile, "unused")
    /\ InitApi
    /\ \E skip \in BOOLEAN, coverage \in Coverages : InitConfig(skip, coverage)
    /\ InitMatcher
    /\ now = StartTime

SpecClothing == InitClothingSpec /\ [][NextClothing]_vars

----------------------------------------------------------------------------
(* Tracker.update with the loop of Matcher._greedy_match taken turn by     *)
(* turn, for trackers of several thresholds.                               *)

\* The thresholds of the trackers explored: 0, the default 0.2, and 1.
Thresholds == {RZero, Rat(2, 10), RInt(1)}

\* The detection lists fed: none, one, a box of no area, two.
MatchInputs == {<<>>, <<DetA>>, <<DetB>>, <<DetFlat>>, <<DetA, DetC>>}

\* Tracker.update calls in the runs explored.
MaxMatchFrames == 3

\* Tracker.update(detections) up to the loop of _greedy_match: Matcher.match
\* returns {} at once without tracks or detections, else the matrix is built.
MatchBegin(detections) ==
    /\ matcher.pc = "idle"
    /\ frame_no < MaxMatchFrames
    /\ matcher' =
          IF Len(tracks) = 0 \/ Len(detections) = 0
          THEN [pc |-> "matched", dets |-> detections, iou_matrix |-> <<>>, mapping |-> {},
                used_dets |-> {}, used_tracks |-> {}]
          ELSE [pc |-> "loop", dets |-> detections,
                iou_matrix |->
                    build_iou_matrix([i \in 1..Len(detections) |-> BoxOf(detections[i])],
                                     [j \in 1..Len(tracks) |->
                                         get_track_box(objs[tracks[j]], use_prediction)]),
                mapping |-> {}, used_dets |-> {}, used_tracks |-> {}]
    /\ UNCHANGED <<managerVars, apiVars, configVars, logVars, ioVars, storeVars, now, trackerVars,
                   observerVars, driverVars, workerVars>>

\* One turn of the while loop of _greedy_match for the cell c the argmax
\* gives: break below the threshold, else assign the pair if both are unused
\* and zero the cell.
greedy_turn(g, c, track_ids, thr) ==
    IF RLess(g.iou_matrix[c[1]][c[2]], thr) THEN [g EXCEPT !.pc = "matched"]
    ELSE IF c[1] \notin g.used_dets /\ c[2] \notin g.used_tracks
    THEN [g EXCEPT !.iou_matrix[c[1]][c[2]] = RZero,
                   !.mapping = @ \cup {<<c[1], track_ids[c[2]]>>},
                   !.used_dets = @ \cup {c[1]},
                   !.used_tracks = @ \cup {c[2]}]
    ELSE [g EXCEPT !.iou_matrix[c[1]][c[2]] = RZero]

GreedyTurn ==
    /\ matcher.pc = "loop"
    /\ matcher' = greedy_turn(matcher, argmax_cell(matcher.iou_matrix, Len(tracks)), tracks,
                              iou_threshold)
    /\ UNCHANGED <<managerVars, apiVars, configVars, logVars, ioVars, storeVars, now, trackerVars,
                   observerVars, driverVars, workerVars>>

\* The rest of Tracker.update once Matcher.match has returned.
MatchEnd ==
    /\ matcher.pc = "matched"
    /\ matcher' = NoMatch
    /\ \E r \in {with_mapping(objs, tracks, next_id, matcher.dets, max_lost, use_prediction,
                              now, matcher.mapping)} :
          Returned(r, matcher.dets)
    /\ UNCHANGED <<managerVars, apiVars, configVars, logVars, ioVars, max_lost, use_prediction,
                   iou_threshold, now, storeVars, driverVars, workerVars>>

NextMatch ==
    \/ \E detections \in MatchInputs : MatchBegin(detections)
    \/ GreedyTurn
    \/ MatchEnd

InitMatchSpec ==
    /\ \E thr \in Thresholds, up \in BOOLEAN : InitTrackerAt(thr, MaxLost, up)
    /\ InitStore
    /\ InitPipeline(NoRun)
    /\ InitLog
    /\ InitManager(NoArgs, MissingFile, "unused")
    /\ InitApi
    /\ InitConfig(FALSE, default_coverage)
    /\ InitMatcher
    /\ now = StartTime

SpecMatch == InitMatchSpec /\ [][NextMatch]_vars

\* The thread that called Tracker.update keeps running: the loop takes its
\* next turn.
SpecMatchFair == SpecMatch /\ WF_vars(GreedyTurn)

----------------------------------------------------------------------------
(* Properties of the tracker.                                              *)

\* The detection list of the last Tracker.update call.
LastDets == inputs[Len(inputs)]

\* All frames so far carried the one detection d and nothing else.
OnlyEver(d) == \A k \in 1..Len(inputs) : inputs[k] = <<d>>

\* C5: fed the same single detection on every frame, an empty tracker holds
\* after every frame n >= 1 exactly one track, always with the same id (the
\* first one, 1), with hits = n and lost_frames = 0.
C5_StableUnderPerfectDetections ==
    \A d \in {DetA, DetB, DetC} :
        (Len(inputs) >= 1 /\ OnlyEver(d)) =>
            /\ tracks = <<1>>
            /\ objs[1].hits = Len(inputs)
            /\ objs[1].lost_frames = 0

\* C6: a track that went k <= max_lost consecutive updates without a detection
\* is still in the track set, and a detection whose IoU with its predicted box
\* reaches iou_threshold is then given to it (no new id is created).
C6_PersistenceWithinMaxLost ==
    /\ \A id \in DOMAIN misses :
          misses[id] <= max_lost => id \in Range(tracks)
    /\ \A id \in Range(pre.tracks) :
          ( /\ pre.misses[id] <= max_lost
            /\ pre.tracks = <<id>>
            /\ Len(LastDets) = 1
            /\ RLeq(iou_threshold, compute_iou(BoxOf(LastDets[1]), pre.box[id])) )
          => (tracks = <<id>> /\ created = {} /\ objs[id].hits = pre.hits[id] + 1)

\* C7: a track that went max_lost + 1 consecutive updates without a detection
\* is gone from the track set; a detection that no remaining track matches
\* makes create_track hand out a new id, greater than every deleted id, and
\* (for max_lost >= 1) the new track is in the track set.
C7_EvictionThenNewId ==
    /\ \A id \in DOMAIN misses :
          misses[id] >= max_lost + 1 => id \notin Range(tracks)
    /\ \A id \in created : \A old \in DOMAIN deleted \ created : id > old
    /\ ( /\ Len(inputs) >= 1
         /\ Len(LastDets) = 1
         /\ \A id \in Range(pre.tracks) :
               RLess(compute_iou(BoxOf(LastDets[1]), pre.box[id]), iou_threshold) )
       => /\ created = {pre.next_id}
          /\ max_lost >= 1 => pre.next_id \in Range(tracks)

\* C7 witness: with max_lost = 1, a track matched twice, withheld for two
\* frames (deleted), and the detection supplied again: a new track with id 2.
C7_Witness ==
    /\ max_lost = 1
    /\ inputs = <<(<<DetA>>), (<<DetA>>), <<>>, <<>>, (<<DetA>>)>>
    /\ DOMAIN deleted = {1}
    /\ tracks = <<2>>

\* C8: ids are handed out in strictly increasing order, no two tracks carry
\* the same id, and no id handed out before (deleted or not) is handed out again.
C8_IdsStrictlyMonotonicUnique ==
    /\ \A i, j \in 1..Len(tracks) : i < j => tracks[i] < tracks[j]
    /\ \A id \in created : pre.next_id <= id /\ id < next_id
    /\ Cardinality(created) = next_id - pre.next_id
    /\ \A id \in created : id \notin DOMAIN pre.misses
    /\ \A id \in Range(tracks) \cup DOMAIN deleted : id < next_id

\* C8 witness: two tracks live at once, created after another was deleted.
C8_Witness ==
    /\ DOMAIN deleted # {}
    /\ Len(tracks) >= 2
    /\ \A id \in Range(tracks) : \A old \in DOMAIN deleted : id > old

\* C9: after every update a track is in the track set iff its lost_frames is
\* at most max_lost: the remaining tracks are within max_lost, every deleted
\* track had exceeded max_lost, and a track is either remaining or deleted.
C9_ExistsIffWithinMaxLost ==
    /\ \A id \in Range(tracks) : objs[id].lost_frames <= max_lost
    /\ \A id \in DOMAIN deleted : deleted[id] > max_lost
    /\ DOMAIN misses = Range(tracks) \cup DOMAIN deleted

\* C9 witness: a track sits exactly at the limit while another was deleted.
C9_Witness ==
    /\ max_lost >= 1
    /\ DOMAIN deleted # {}
    /\ \E id \in Range(tracks) : objs[id].lost_frames = max_lost

\* The IoU matrix the last update's Matcher.match worked on.
LastMatrix ==
    build_iou_matrix([i \in 1..Len(LastDets) |-> BoxOf(LastDets[i])],
                     [j \in 1..Len(pre.tracks) |-> pre.box[pre.tracks[j]]])

\* Cell c comes before cell e: larger IoU first, then the smaller detection
\* index, then the earlier track.
Before(m, c, e) ==
    \/ RLess(m[e[1]][e[2]], m[c[1]][c[2]])
    \/ /\ m[e[1]][e[2]] = m[c[1]][c[2]]
       /\ (c[1] < e[1] \/ (c[1] = e[1] /\ c[2] <= e[2]))

\* The cells at or above the threshold whose detection and track are unused.
OpenCells(m, nT, thr, used_dets, used_tracks) ==
    {c \in ((1..Len(m)) \ used_dets) \X ((1..nT) \ used_tracks) :
        RLeq(thr, m[c[1]][c[2]])}

\* The association by row-major tie-breaking: repeatedly the first open cell.
RECURSIVE RowMajorGreedy(_, _, _, _, _)
RowMajorGreedy(m, track_ids, thr, used_dets, used_tracks) ==
    LET open == OpenCells(m, Len(track_ids), thr, used_dets, used_tracks)
    IN  IF open = {} THEN {}
        ELSE LET c == CHOOSE c \in open : \A e \in open : Before(m, c, e)
             IN  {<<c[1], track_ids[c[2]]>>}
                 \cup RowMajorGreedy(m, track_ids, thr,
                                     used_dets \cup {c[1]}, used_tracks \cup {c[2]})

\* C10: the association is the one fixed by the detection list and the track
\* set with row-major tie-breaking: among cells of equal IoU the smallest
\* detection index, then the earliest track, is assigned first.
C10_RowMajorTieBreak ==
    (Len(inputs) >= 1 /\ Len(LastDets) >= 1 /\ Len(pre.tracks) >= 1)
        => last_mapping = RowMajorGreedy(LastMatrix, pre.tracks, iou_threshold, {}, {})

\* C10 witness: two cells share the maximum IoU, at or above the threshold,
\* and one of them was assigned.
C10_Witness ==
    /\ Len(inputs) >= 1 /\ Len(LastDets) >= 1 /\ Len(pre.tracks) >= 1
    /\ last_mapping # {}
    /\ \E c, e \in (1..Len(LastDets)) \X (1..Len(pre.tracks)) :
          /\ c # e
          /\ LastMatrix[c[1]][c[2]] = LastMatrix[e[1]][e[2]]
          /\ RLeq(iou_threshold, LastMatrix[c[1]][c[2]])
          /\ \A f \in (1..Len(LastDets)) \X (1..Len(pre.tracks)) :
                RLeq(LastMatrix[f[1]][f[2]], LastMatrix[c[1]][c[2]])

----------------------------------------------------------------------------
(* Properties of the sync store.                                           *)

\* C1: once register_camera_stop(c) has completed, get_running_camera_ids()
\* does not contain c during the following STOP_TIMEOUT (300) seconds,
\* whatever heartbeat_camera(c) and save_camera_tracks(c, ...) calls arrive
\* in that period.
C1_StopGraceHolds ==
    \A c \in Cameras :
        (stopped_at[c] > 0 /\ now - stopped_at[c] < STOP_TIMEOUT)
            => c \notin get_running_camera_ids(file, now)

----------------------------------------------------------------------------
(* Properties of the pipeline run.                                         *)

\* submit(d_frame) has returned and the driver has not read the next frame.
AfterSubmit == pc_driver \in {"get_tracks", "draw", "heartbeat"}

\* C2: submit never waits, and when it finds the slot occupied the old frame
\* is discarded and the new one put in its place: once submit(f) has
\* returned, f is in the slot or the worker has taken it.
C2_SubmittedFrameNotLost ==
    AfterSubmit => (queue_slot = <<d_frame>> \/ d_frame.n \in taken)

\* The driver holds the list get_tracks returned.
HoldsSnapshot == pc_driver \in {"draw", "heartbeat"}

\* C3: while the driver holds a snapshot, every track in it has the field
\* values published with it at the end of one worker iteration, also while
\* the worker runs its next iteration.
C3_SnapshotConsistent ==
    HoldsSnapshot => \A id \in Range(snap) : objs[id] = snap_vals[id]

\* The camera's record after termination: stopped, stop_time set, no tracks,
\* and not among the running cameras.
RecordStopped(c) ==
    /\ c \in DOMAIN file
    /\ file[c].status = "stopped"
    /\ "stop_time" \in DOMAIN file[c]
    /\ file[c].tracks = <<>>
    /\ c \notin get_running_camera_ids(file, now)

\* C4: the worker has stopped by the time the camera is marked stopped, and
\* once Pipeline.run has terminated (source exhausted, frame budget, quit key
\* or interrupt) the record stays stopped, with stop_time, without tracks,
\* and the camera is not among the running ones.
C4_StoppedAfterTermination ==
    pipeline_camera_id # None =>
        /\ pc_driver \in {"stop_worker", "join", "done"} => pc_worker = "exited"
        /\ pc_driver = "done" => RecordStopped(pipeline_camera_id)

----------------------------------------------------------------------------
(* Properties of the activity log.                                         *)

\* 1 + the number of positions of a sequence of observed activities that differ
\* from the one before.
Changes(as) ==
    IF as = <<>> THEN 0
    ELSE 1 + Cardinality({i \in 2..Len(as) : as[i].activity # as[i - 1].activity})

\* The change-triggered (not forced) and the periodic (forced) log_activity
\* calls made for a track.
ChangeCalls(id) ==
    {i \in DOMAIN log_calls : log_calls[i].track_id = id /\ ~log_calls[i].force}
ForcedCalls(id) ==
    {i \in DOMAIN log_calls : log_calls[i].track_id = id /\ log_calls[i].force}

\* C11: for every track of a loggable class, the change-triggered records the
\* worker writes number 1 + the number of positions at which the track's
\* non-empty activity differs from the one of the process call before (none
\* for a track never seen with an activity), wherever the periodic flushes
\* fall; records are written for such tracks only, and every write the
\* database accepts is one row of the table.
C11_ChangeRecordsCountTransitions ==
    /\ \A id \in DOMAIN seen : Cardinality(ChangeCalls(id)) = Changes(seen[id])
    /\ \A i \in DOMAIN log_calls : log_calls[i].track_id \in DOMAIN seen
    /\ Len(logs) = Cardinality({i \in DOMAIN log_calls : log_calls[i].ok})

\* A track seen with the activities A, A, A, B, B, that had two
\* change-triggered records and a periodic flush as well.
C11_Witness ==
    \E id \in DOMAIN seen :
        /\ Len(seen[id]) = 5
        /\ seen[id][1].activity = seen[id][2].activity
        /\ seen[id][2].activity = seen[id][3].activity
        /\ seen[id][3].activity # seen[id][4].activity
        /\ seen[id][4].activity = seen[id][5].activity
        /\ Cardinality(ChangeCalls(id)) = 2
        /\ ForcedCalls(id) # {}

\* The log_activity calls made for a track in process call n.
CallsIn(id, n) ==
    {i \in DOMAIN log_calls : log_calls[i].track_id = id /\ log_calls[i].n = n}

\* The tracks that were of a loggable class with an activity in process call n.
LoggableIn(n) == {id \in DOMAIN seen : \E k \in DOMAIN seen[id] : seen[id][k].n = n}

\* The forced log_activity calls made in this step.
NewForcedCalls ==
    {i \in DOMAIN log_calls' \ DOMAIN log_calls : log_calls'[i].force}

\* The records of the process calls that flushed: one per loggable track, none
\* for another track; forced records in such calls only; flushes an interval apart.
FlushedOncePerTrack ==
    /\ \A k \in DOMAIN flushes :
          /\ \A id \in LoggableIn(flushes[k].n) :
                 Cardinality(CallsIn(id, flushes[k].n)) = 1
          /\ \A i \in DOMAIN log_calls :
                 log_calls[i].n = flushes[k].n
                    => log_calls[i].track_id \in LoggableIn(flushes[k].n)
    /\ \A i \in DOMAIN log_calls :
          log_calls[i].force => \E k \in DOMAIN flushes : flushes[k].n = log_calls[i].n
    /\ \A k \in DOMAIN flushes : \A j \in DOMAIN flushes :
          k < j => flushes[j].t - flushes[k].t >= PERIODIC_LOG_INTERVAL

\* C12: in a process call where the periodic flush is due, exactly one record
\* is handed to the activity log for every loggable track with an activity
\* (and none for any other track); forced records are written in such calls
\* only; a forced write leaves the track's previous_activity as it was; and
\* two periodic flushes are at least PERIODIC_LOG_INTERVAL apart.
C12_PeriodicFlush ==
    /\ []FlushedOncePerTrack
    /\ [][\A i \in NewForcedCalls :
              /\ log_calls'[i].track_id \in DOMAIN objs
              /\ objs'[log_calls'[i].track_id].previous_activity
                    = objs[log_calls'[i].track_id].previous_activity]_vars

\* A second periodic flush that wrote a forced record for one track and a
\* change-triggered one for another.
C12_Witness ==
    \E k \in DOMAIN flushes :
        /\ k > 1
        /\ \E i \in DOMAIN log_calls, j \in DOMAIN log_calls :
              /\ log_calls[i].n = flushes[k].n /\ log_calls[i].force
              /\ log_calls[j].n = flushes[k].n /\ ~log_calls[j].force

\* The change-triggered records of a track that the database accepted.
AppendedChanges(id) == {i \in ChangeCalls(id) : log_calls[i].ok}

\* The activity of the last of them, None when there is none.
LastAppended(id) ==
    IF AppendedChanges(id) = {} THEN None
    ELSE log_calls[CHOOSE i \in AppendedChanges(id) :
                      \A j \in AppendedChanges(id) : j <= i].activity

\* C13: the previous_activity of every track is the activity of the last
\* change-triggered record that was appended to the activity log for it (None
\* when none was): a write the database refuses does not advance it.
C13_PreviousActivityIsLastAppended ==
    \A id \in DOMAIN objs : objs[id].previous_activity = LastAppended(id)

----------------------------------------------------------------------------
(* Properties of the readers of the sync store.                            *)

\* The running predicate as the specification words it.
RunningBySpec(camera_data, t) ==
    /\ "status" \in DOMAIN camera_data /\ camera_data.status = "running"
    /\ "stop_time" \notin DOMAIN camera_data \/ t - camera_data.stop_time >= STOP_TIMEOUT
    /\ "heartbeat" \in DOMAIN camera_data /\ t - camera_data.heartbeat < HEARTBEAT_TIMEOUT

RunningIdsBySpec(doc, t) == {c \in DOMAIN doc : RunningBySpec(doc[c], t)}

\* C14: a camera record is reported running exactly when its status is
\* running, it has no stop_time or its stop_time is at least STOP_TIMEOUT old,
\* and its heartbeat is younger than HEARTBEAT_TIMEOUT; and
\* get_running_camera_ids returns exactly the ids of the records of the file
\* that satisfy this at the time of the read.
C14_RunningPredicate ==
    /\ \A c \in DOMAIN file : is_camera_running(file[c], now) <=> RunningBySpec(file[c], now)
    /\ answer.op = "get_running_camera_ids"
          => ~answer.raised /\ answer.value = RunningIdsBySpec(file, answer.at)

\* A read that lists a camera whose stop grace is over and whose heartbeat is
\* fresh, and leaves out a camera whose heartbeat has expired.
C14_Witness ==
    /\ answer.op = "get_running_camera_ids"
    /\ answer.value = {"cam1"}
    /\ "stop_time" \in DOMAIN file["cam1"]
    /\ DEFAULT_CAMERA_ID \in DOMAIN file
    /\ file[DEFAULT_CAMERA_ID].status = "running"

\* The saved tracks of the running cameras, as the specification words it.
TracksBySpec(doc, t) ==
    [c \in RunningIdsBySpec(doc, t) |->
        IF "tracks" \in DOMAIN doc[c] THEN doc[c].tracks ELSE <<>>]

CountBySpec(track_list, name) ==
    Cardinality({i \in DOMAIN track_list :
                    "class_name" \in DOMAIN track_list[i] /\ track_list[i].class_name = name})

\* The statistics of camera c read first in doc1 at t1, then in doc2 at t2.
StatsBySpec(doc1, t1, doc2, t2, c) ==
    IF c \in RunningIdsBySpec(doc1, t1) /\ c \in RunningIdsBySpec(doc2, t2)
    THEN [person |-> CountBySpec(TracksBySpec(doc2, t2)[c], "person"),
          train |-> CountBySpec(TracksBySpec(doc2, t2)[c], "train"),
          total |-> Len(TracksBySpec(doc2, t2)[c])]
    ELSE NoStats

\* C17: get_all_camera_tracks returns the saved tracks of exactly the cameras
\* that are running at the read; get_camera_stats returns zeros when the camera
\* is not running at one of its reads, and otherwise the numbers of saved tracks
\* of the camera whose class_name is person, is train, and in total.
C17_LiveDataOfRunningCameras ==
    /\ answer.op = "get_all_camera_tracks" => answer.value = TracksBySpec(file, answer.at)
    /\ answer.op = "get_camera_stats"
          => answer.value = StatsBySpec(answer.doc1, answer.at1, file, answer.at,
                                        answer.camera_id)

\* Statistics counted from three saved tracks, by two reads at different times.
C17_Witness ==
    /\ answer.op = "get_camera_stats"
    /\ answer.at > answer.at1
    /\ answer.value = [person |-> 2, train |-> 1, total |-> 3]

EmptyAnswer(op) ==
    CASE op = "get_running_camera_ids" -> {}
      [] op = "get_all_camera_tracks" -> EmptyDoc
      [] op = "get_camera_stats" -> NoStats

\* C18: a read that finds the file missing, unreadable or not a JSON object
\* returns no ids, no tracks, all-zero statistics, and does not raise.
C18_DamagedFileReadsEmpty ==
    answer.op # None /\ answer.kind # "object"
        => ~answer.raised /\ answer.value = EmptyAnswer(answer.op)

\* get_camera_stats found a running camera at its first read and a file that
\* is not a JSON object at its second.
C18_Witness ==
    /\ answer.op = "get_camera_stats"
    /\ answer.kind1 = "object"
    /\ answer.kind = "other_json"
    /\ answer.value = NoStats

----------------------------------------------------------------------------
(* Properties of heartbeats.                                               *)

\* The heartbeat_camera call that wrote beat_at[c] is younger than the timeout.
Beating(c) == beat_at[c] > 0 /\ now - beat_at[c] < HEARTBEAT_TIMEOUT

ListedWhileBeating ==
    \A c \in Cameras :
        Beating(c) => c \in running_ids(read_file(file_kind, file), now).value

\* C15: once register_camera_start(c) has completed and a heartbeat_camera(c)
\* begun after it has completed (no other call on c under way meanwhile, no
\* start or stop of c begun since), every read made less than
\* HEARTBEAT_TIMEOUT after that heartbeat lists c.
C15_HeartbeatKeepsListed == ListedWhileBeating

\* The same while no call has completed with another one under way.
ListedWhileBeatingUnlessRaced == ~raced => ListedWhileBeating

\* The last heartbeat or track save recorded for c is HEARTBEAT_TIMEOUT old or older.
Silent(c) ==
    /\ c \in DOMAIN file
    /\ file[c].status = "running"
    /\ now - file[c].heartbeat >= HEARTBEAT_TIMEOUT

----------------------------------------------------------------------------
(* Properties of the writers when the disk fails.                          *)

\* C19: whatever a write attempt raises, each of the four mutations returns
\* to its caller without an exception; _write_file makes at most max_retries
\* attempts, and gives up with a logged error exactly when max_retries of them
\* failed with an I/O error.
C19_FailedWriteSwallowed ==
    \A p \in Callers :
        /\ outcome[p].how # "raised"
        /\ attempts[p] < max_retries
        /\ outcome[p].tries <= max_retries
        /\ outcome[p].how = "logged" => outcome[p].tries = max_retries

\* save_camera_tracks has returned after five failed attempts, leaving a
\* truncated file.
C19_Witness ==
    /\ outcome["p1"] = [how |-> "logged", tries |-> max_retries, op |-> "save_camera_tracks"]
    /\ pending["p1"] = NoCall
    /\ file_kind = "garbage"

----------------------------------------------------------------------------
(* Properties of the confidence filter.                                    *)

\* The detections the specification keeps: persons at or above conf_person,
\* vehicles at or above the vehicle threshold.
KeptBySpec(det) ==
    /\ det[5] \in DOMAIN names
    /\ \/ names[det[5]] = "person" /\ det[6] >= conf_person
       \/ names[det[5]] \in {"train", "truck", "bus", "car"} /\ det[6] >= conf_train

KeptIndices(dets) == {i \in DOMAIN dets : KeptBySpec(dets[i])}

\* The j-th smallest member of a set of indices.
Nth(indices, j) == CHOOSE i \in indices : Cardinality({k \in indices : k < i}) = j - 1

\* C20: the filter returns the detections of the frame that are persons with
\* score >= conf_person or vehicles (train, truck, bus, car) with score >=
\* the vehicle threshold, each once and in the order of the frame; everything
\* else, a class id without a name included, is dropped.
C20_FilterKeepsByClassThreshold ==
    pc_worker = "track" =>
        /\ Len(filtered) = Cardinality(KeptIndices(w_frame.dets))
        /\ \A j \in DOMAIN filtered :
              filtered[j] = w_frame.dets[Nth(KeptIndices(w_frame.dets), j)]

\* A person at 50 is kept, a car at 50 between is dropped, a train at the
\* vehicle threshold is kept after the person.
C20_Witness ==
    /\ pc_worker = "track"
    /\ w_frame.dets = <<Scored(ClassId("person"), 50), Scored(ClassId("car"), 50),
                        Scored(ClassId("train"), conf_train)>>
    /\ filtered = <<Scored(ClassId("person"), 50), Scored(ClassId("train"), conf_train)>>


----------------------------------------------------------------------------
(* Properties of the worker's loop when the detector or the classifier     *)
(* raises.                                                                 *)

\* The worker's turn in which the detector, and nothing else, raised.
DetectorRaised == fault'.detect /\ fault'.classify = 0 /\ w_frame'.n # w_frame.n

\* C21: when the detector raises on a frame, the worker goes on; the frame
\* counts as one without detections: every track the tracker held is one lost
\* frame older (or has left the tracker, being past max_lost), no track is
\* created, and the tracker's list is the one published.
C21_DetectorErrorIsEmptyFrame ==
    [][DetectorRaised =>
          /\ pc_worker' = "loop"
          /\ next_id' = next_id
          /\ Range(tracks') \subseteq Range(tracks)
          /\ \A id \in Range(tracks) :
                IF id \in Range(tracks')
                THEN /\ objs'[id].lost_frames = objs[id].lost_frames + 1
                     /\ objs'[id].hits = objs[id].hits
                ELSE objs[id].lost_frames + 1 > max_lost
          /\ pub_tracks' = tracks'
          /\ \A id \in Range(pub_tracks') : pub_vals'[id] = objs'[id]]_vars

\* The detector raised on a frame that had a detection, and the track made
\* earlier is published one lost frame older.
C21_Witness ==
    /\ fault.detect /\ fault.classify = 0 /\ pc_worker = "loop"
    /\ w_frame.dets # <<>>
    /\ pub_tracks = <<1>>
    /\ pub_vals[1].lost_frames = 1
    /\ next_id = 2

\* The worker's turn in which the classification of a track raised.
ClassifierRaised == fault'.classify > 0 /\ w_frame'.n # w_frame.n

\* C22: when the classification of one track raises, the other tracks of the
\* frame are classified all the same, the frame's track list is published,
\* and the worker's loop goes on to later frames.
C22_ClassificationErrorContained ==
    [][ClassifierRaised =>
          /\ \A k \in 1..Len(tracks') :
                k # fault'.classify =>
                    objs'[tracks'[k]].activity = process(objs', tracks')[tracks'[k]].activity
          /\ pub_tracks' = tracks'
          /\ pc_worker' = "loop"]_vars

\* With a classifier that does not raise, every turn leaves the worker in its
\* loop with the tracker's list published.
TurnPublishes ==
    [][fault'.classify = 0 /\ w_frame'.n # w_frame.n =>
          pub_tracks' = tracks' /\ pc_worker' = "loop"]_vars

----------------------------------------------------------------------------
(* Properties of Pipeline.run around the opening of the source.            *)

\* The sync store has the camera registered as running.
RegisteredRunning(c) == c \in DOMAIN file /\ file[c].status = "running"

\* C23: when the source cannot be opened and run has raised to its caller,
\* the camera is not left registered as running: only a pipeline whose source
\* was opened has its camera registered as running.
C23_RunningOnlyWithOpenSource ==
    (pipeline_camera_id # None /\ pc_driver = "raised")
        => ~RegisteredRunning(pipeline_camera_id)

\* Before run's first step no camera is registered.
NotRegisteredBeforeRun == pc_driver = "register_start" => DOMAIN file = {}

----------------------------------------------------------------------------
(* Properties of the tracker through an occlusion.                         *)

\* SeenFrames frames with the object at the original place and then
\* LostFrames frames without detections have been fed, and perhaps the frame
\* with the detection elsewhere.
OcclusionOver ==
    /\ FedWith(<<DetOrigin>>) = SeenFrames
    /\ FedWith(<<>>) = LostFrames

\* The track sits at the original place with zero velocity.
StaleAtOrigin(track) ==
    track.bbox = BoxOf(DetOrigin) /\ track.velocity = <<RZero, RZero>>

\* C24: after 10 frames with a detection at (0,0,50,50) and 20 frames without
\* detections, max_lost being 45, the tracker holds no track that still sits at
\* (0,0,50,50) with zero velocity; the detection at (200,0,250,50) that follows
\* is held by the original id or by a new one.
C24_NoStaleTrackAfterOcclusion ==
    OcclusionOver =>
        /\ \A id \in Range(tracks) : ~StaleAtOrigin(objs[id])
        /\ FedWith(<<DetFar>>) = 1 =>
              \E id \in Range(tracks) : id \in {1, 2} /\ objs[id].bbox = BoxOf(DetFar)

\* The detection that ends the occlusion is held by the original id or by a
\* new one, whatever the lengths of the two phases.
FarDetectionHeld ==
    FedWith(<<DetFar>>) = 1 =>
        \E id \in Range(tracks) : id \in {1, 2} /\ objs[id].bbox = BoxOf(DetFar)

----------------------------------------------------------------------------
(* Properties of the activity classification.                              *)

\* The published tracks of a vehicle class.
PublishedVehicles == {id \in DOMAIN pub_vals : pub_vals[id].cls_name \in VEHICLE_CLASSES}

VehicleNeedsHistoryLength ==
    \A id \in PublishedVehicles :
        Len(pub_vals[id].history) < vehicle_min_history =>
            pub_vals[id].activity = "stopped" /\ pub_vals[id].activity_conf = 85

\* The length of a step whose squared length is n (centers are integers, and
\* the steps explored are along one axis).
Root(n) == CHOOSE r \in 0..n : r * r = n

\* The distances between consecutive centers.
StepLengths(pts) == [i \in 1..(Len(pts) - 1) |-> Root(Dist2(pts[i + 1], pts[i]))]

\* The k-th smallest of the numbers ds.
Kth(ds, k) ==
    CHOOSE v \in Range(ds) :
        /\ Cardinality({i \in DOMAIN ds : ds[i] < v}) < k
        /\ Cardinality({i \in DOMAIN ds : ds[i] <= v}) >= k

\* Twice the median: the middle one, or the mean of the two middle ones.
TwiceMedian(ds) ==
    IF Len(ds) % 2 = 1 THEN 2 * Kth(ds, (Len(ds) + 1) \div 2)
    ELSE Kth(ds, Len(ds) \div 2) + Kth(ds, Len(ds) \div 2 + 1)

\* Twice the speed the specification gives a history, in px/s.
TwiceSpeedBySpec(history) ==
    IF Len(history) < 3 THEN 0
    ELSE fps * TwiceMedian(StepLengths(LastPoints(history, activity_window)))

LabelBySpec(history) ==
    IF TwiceSpeedBySpec(history) < 2 * person_speed_threshold THEN "standing" ELSE "moving"

\* The person tracks the classifier has been applied to.
ClassifiedPersons ==
    IF pc_worker = "log"
    THEN {id \in Range(tracks) : objs[id].cls_name \in PERSON_CLASSES}
    ELSE {}

\* C26: a person's speed is 0 with fewer than 3 history points and otherwise
\* fps times the median of the distances between consecutive centers among the
\* last window points; the label is standing (0.90) iff the speed is below
\* person_speed_threshold and moving (0.90) otherwise.
C26_PersonSpeedIsMedian ==
    \A id \in ClassifiedPersons :
        /\ objs[id].activity = LabelBySpec(objs[id].history)
        /\ objs[id].activity_conf = 90

\* The same for the histories whose window has an odd number of steps, where
\* the median is one of the distances.
PersonSpeedIsMedianOfOdd ==
    \A id \in ClassifiedPersons :
        (Len(objs[id].history) < 3
            \/ Len(LastPoints(objs[id].history, activity_window)) % 2 = 0)
        => /\ objs[id].activity = LabelBySpec(objs[id].history)
           /\ objs[id].activity_conf = 90

\* The two examples: three identical centers are standing, centers advancing
\* 10 px per frame are moving.
SpeedExamples ==
    \A id \in ClassifiedPersons :
        /\ objs[id].history = Points(<<10, 10, 10>>) => objs[id].activity = "standing"
        /\ (\E m \in 2..MaxWalk : objs[id].history = WalkThenStay(m, 0))
              => objs[id].activity = "moving"

----------------------------------------------------------------------------
(* Properties of the queries of the activity log.                          *)

\* The time a stored timestamp stands for, in seconds.
TimeOf(stamp) == stamp[1] * 600 + stamp[2] * 60 + stamp[3] * 10 + stamp[4]

\* The row matches every filter given in the query q.
MatchesAll(row, q) ==
    /\ q.class_filter # None => row.class = q.class_filter
    /\ q.activity_filter # None => row.activity = q.activity_filter
    /\ q.camera_id # None => row.camera_id = q.camera_id

Matching(q) == {i \in DOMAIN logs : MatchesAll(logs[i], q)}

\* The matching records that come before record i: later in time, or of the
\* same time and with a larger id.
Ahead(i, q) ==
    {j \in Matching(q) :
        \/ TimeOf(logs[j].timestamp) > TimeOf(logs[i].timestamp)
        \/ TimeOf(logs[j].timestamp) = TimeOf(logs[i].timestamp) /\ j > i}

\* The records of the window [offset, offset + limit) of the matching ones.
InWindow(q) ==
    {i \in Matching(q) :
        q.offset <= Cardinality(Ahead(i, q)) /\ Cardinality(Ahead(i, q)) < q.offset + q.limit}

\* C27: get_logs returns exactly the inserted records that match all the
\* filters given, by timestamp descending then id descending, restricted to
\* the window [offset, offset + limit); get_log_count reports the number of
\* all the matching records.
C27_QueryReturnsMatchingWindow ==
    /\ answer.op = "get_logs" =>
          /\ Len(answer.value) = Cardinality(InWindow(answer.args))
          /\ \A k \in DOMAIN answer.value :
                /\ answer.value[k].id \in Matching(answer.args)
                /\ Cardinality(Ahead(answer.value[k].id, answer.args))
                      = answer.args.offset + k - 1
                /\ \A f \in DOMAIN logs[answer.value[k].id] :
                      answer.value[k][f] = logs[answer.value[k].id][f]
    /\ answer.op = "get_log_count" => answer.value = Cardinality(Matching(answer.args))

\* Three records, the last inserted being the oldest: a query filtered by class
\* and camera, from offset 1, returns it after a record it skipped.
C27_Witness ==
    /\ Len(logs) = 3
    /\ answer.op = "get_logs"
    /\ answer.args.class_filter = "person" /\ answer.args.camera_id = "cam1"
    /\ answer.args.offset = 1 /\ answer.args.limit = 2
    /\ Len(answer.value) = 1
    /\ answer.value[1].id = 3
    /\ logs[2].class = "train"
    /\ TimeOf(logs[3].timestamp) < TimeOf(logs[1].timestamp)

----------------------------------------------------------------------------
(* Properties of the camera manager's exit code.                           *)

\* The manager was asked to run the cameras of the file named by --config.
RunsFromConfig ==
    /\ ~is_set(argv.create_config)
    /\ ~(is_set(argv.camera) /\ is_set(argv.source))
    /\ is_set(argv.config)

\* C28: the camera manager exits with a non-zero code when the file given by
\* --config does not exist and when it holds invalid JSON; code 0 means that
\* neither was the case.
C28_BadConfigExitsNonZero ==
    (pc_manager = "exited" /\ RunsFromConfig /\ config_file \in {MissingFile, InvalidJson})
        => exit_code # 0

\* The half that holds: invalid JSON ends the manager with a non-zero code.
InvalidJsonExitsNonZero ==
    (pc_manager = "exited" /\ RunsFromConfig /\ config_file = InvalidJson) => exit_code # 0

----------------------------------------------------------------------------
(* Properties of GET /stats/current.                                       *)

\* The sums, over the cameras running according to the sync store when the
\* request was answered, of those cameras' sync-store stats.
SyncStoreSums ==
    LET s == get_stats_from_sync(answer.kind, file, answer.at)
    IN  create_current_stats(s.person, s.train, s.total)

\* C29: GET /stats/current returns person_count, train_count and
\* total_tracks equal to the sums, over the cameras that are running
\* according to the sync store, of those cameras' sync-store stats.
C29_CurrentStatsAreSyncStoreSums ==
    answer.op = "get_current_stats" => answer.value = SyncStoreSums

\* What the endpoint returns instead: the counts of the API process's own
\* SharedState, which nothing fills.
CurrentStatsAreSharedStateCounts ==
    answer.op = "get_current_stats" => answer.value = create_current_stats(0, 0, 0)

\* The sync store counts a track of a running camera when the request is answered.
SyncStoreHasTracks ==
    /\ answer.op = "get_current_stats"
    /\ SyncStoreSums.total_tracks > 0

----------------------------------------------------------------------------
(* Properties of the clothing label.                                       *)

\* The pixels of the frame that lie in the upper 45% of the box of whole
\* pixels with the corners (x1, y1) and (x2, y2).
TorsoPixels(frame, x1, y1, x2, y2) ==
    {p \in (0..(frame.rows - 1)) \X (0..(frame.cols - 1)) :
        /\ y1 <= p[1] /\ p[1] < y1 + (45 * (y2 - y1)) \div 100
        /\ x1 <= p[2] /\ p[2] < x2}

\* More than coverage hundredths of the pixels of the set pass the HSV gate.
Covered(frame, pixels, coverage) ==
    100 * Cardinality({p \in pixels : in_mask(frame.px[p])}) > coverage * Cardinality(pixels)

\* The labels the rule allows a track: none for a track that is no person,
\* unknown for a box of no area (none too when only its whole pixels have no
\* area), else high-vis or none by the coverage of the torso pixels (none
\* when the frame holds none of them).
ClothingBySpec(frame, track, coverage) ==
    IF track.cls_name # "person" THEN {None}
    ELSE IF RLeq(track.bbox[3], track.bbox[1]) \/ RLeq(track.bbox[4], track.bbox[2])
    THEN {"unknown"}
    ELSE LET x1 == RTrunc(track.bbox[1])
             y1 == RTrunc(track.bbox[2])
             x2 == RTrunc(track.bbox[3])
             y2 == RTrunc(track.bbox[4])
             torso == TorsoPixels(frame, x1, y1, x2, y2)
         IN  IF x2 <= x1 \/ y2 <= y1 THEN {"unknown", "none"}
             ELSE IF torso = {} THEN {"none"}
             ELSE IF Covered(frame, torso, coverage) THEN {"high-vis"} ELSE {"none"}

\* The worker has handled a frame with the clothing step enabled.
LabelledTurn == w_frame.n > 0 /\ ~skip_clothing

\* C30: when PPE detection is enabled, after each worker iteration every
\* non-person track has no clothing label, every person track whose box has
\* zero or negative area has clothing unknown, and every other person track
\* has clothing high-vis if and only if the fraction of the pixels in the
\* upper 45% of its box that pass the HSV gate exceeds the coverage ratio,
\* and none otherwise.
C30_ClothingLabelByCoverage ==
    LabelledTurn =>
        \A id \in Range(pub_tracks) :
            pub_vals[id].clothing \in
                ClothingBySpec(w_frame.image, pub_vals[id], clothing_coverage)

\* The box starts inside the frame: no corner is left of or above it.
StartsInFrame(track) == RTrunc(track.bbox[1]) >= 0 /\ RTrunc(track.bbox[2]) >= 0

\* The rule holds for every track whose box starts inside the frame.
ClothingLabelByCoverageInFrame ==
    LabelledTurn =>
        \A id \in Range(pub_tracks) :
            StartsInFrame(pub_vals[id]) =>
                pub_vals[id].clothing \in
                    ClothingBySpec(w_frame.image, pub_vals[id], clothing_coverage)

\* With the clothing step disabled no track gets a label.
NoLabelWhenSkipped ==
    skip_clothing => \A id \in Range(pub_tracks) : pub_vals[id].clothing = None

\* All the labels occur: a train without one, a flat box, a person with and
\* a person without enough orange, at a coverage of one half.
AllLabelsSeen(label) ==
    /\ LabelledTurn
    /\ clothing_coverage = 50
    /\ \E id \in Range(pub_tracks) :
          pub_vals[id].clothing = label /\ StartsInFrame(pub_vals[id])
HighVisSeen == AllLabelsSeen("high-vis")
NoneSeen == AllLabelsSeen("none")
UnknownSeen == AllLabelsSeen("unknown")

----------------------------------------------------------------------------
(* Properties of the tracks Tracker.update creates.                        *)

\* The detections of the last call that Matcher.match left unassigned.
UnmatchedDets == {i \in 1..Len(LastDets) : ~\E p \in last_mapping : p[1] = i}

\* The ids the last call took from _next_id: the next unused ones, one for
\* each unmatched detection.
TookNextIds == created = pre.next_id..(pre.next_id + Cardinality(UnmatchedDets) - 1)

\* The track is as create_track builds it for one of the unmatched detections.
AsSpawned(track) ==
    /\ track.hits = 1
    /\ track.lost_frames = 0
    /\ track.velocity = <<RZero, RZero>>
    /\ \E i \in UnmatchedDets : track.history = <<center(BoxOf(LastDets[i]))>>

\* C31: when Tracker.update returns, every track spawned in that call for an
\* unmatched detection has hits = 1, lost_frames = 0, history equal to the
\* single center of that detection, velocity (0, 0), and the next unused id.
C31_SpawnedTrackIsFresh ==
    frame_no > 0 =>
        /\ TookNextIds
        /\ \A id \in created : id \in Range(tracks) /\ AsSpawned(objs[id])

\* What does hold of the spawned tracks that are still held: the ids are the
\* next unused ones, hits is 1, and the track has been aged once.
SpawnedTrackIsAgedOnce ==
    frame_no > 0 =>
        /\ TookNextIds
        /\ \A id \in created \cap Range(tracks) :
              objs[id].hits = 1 /\ objs[id].lost_frames = 1

\* A call has spawned a track.
SpawnedSome == frame_no > 0 /\ created # {}

----------------------------------------------------------------------------
(* Properties of the association.                                          *)

\* The box a track is compared with: bbox + velocity when lost_frames > 0
\* and use_prediction, the last bbox otherwise.
MatchingBoxBySpec(t) ==
    IF t.lost_frames > 0 /\ use_prediction
    THEN <<RAdd(t.bbox[1], t.velocity[1]), RAdd(t.bbox[2], t.velocity[2]),
           RAdd(t.bbox[3], t.velocity[1]), RAdd(t.bbox[4], t.velocity[2])>>
    ELSE t.bbox

\* The pair of the association a call computes is between a detection of the
\* call and a track held before it, at or above the threshold.
PairAboveThreshold(p) ==
    /\ p[1] \in 1..Len(inputs'[Len(inputs')])
    /\ p[2] \in Range(tracks)
    /\ RLeq(iou_threshold,
            compute_iou(BoxOf(inputs'[Len(inputs')][p[1]]), MatchingBoxBySpec(objs[p[2]])))

\* C32: the association computed by Matcher.match is one-to-one and above
\* threshold: every detection index maps to at most one track id, no track
\* id is the image of two detections, and every assigned pair has IoU >=
\* iou_threshold between the detection and the track's matching box (bbox +
\* velocity when lost_frames > 0 and use_prediction, the last bbox otherwise).
C32_MatchOneToOneAboveThreshold ==
    [][\A p \in last_mapping' :
          /\ PairAboveThreshold(p)
          /\ \A q \in last_mapping' : (p[1] = q[1] \/ p[2] = q[2]) => p = q]_vars

\* C32 witness: two detections were assigned to two tracks, one of them a
\* moving track that had gone without a detection and was compared by its
\* predicted box.
C32_Witness ==
    /\ use_prediction
    /\ Cardinality(last_mapping) = 2
    /\ \E p \in last_mapping :
          /\ pre.misses[p[2]] >= 1
          /\ pre.box[p[2]] # objs[p[2]].bbox
          /\ objs[p[2]].velocity # <<RZero, RZero>>

\* The cells of the IoU matrix of the last call, and the cell of a pair of
\* the association (the column of a track is its place in the dict).
LastCells == (1..Len(LastDets)) \X (1..Len(pre.tracks))
CellOf(p) == <<p[1], CHOOSE j \in 1..Len(pre.tracks) : pre.tracks[j] = p[2]>>
AssignedCells == {CellOf(p) : p \in last_mapping}

\* In the matrix m with the cells `assigned`: no detection is left
\* unassigned together with a track left unassigned whose IoU is at or above
\* the threshold.
Maximal(m, assigned) ==
    \A c \in LastCells :
        RLeq(iou_threshold, m[c[1]][c[2]]) =>
            \E a \in assigned : a[1] = c[1] \/ a[2] = c[2]

\* The pairs were assigned in non-increasing IoU order from the global
\* maximum on: a cell at or above the threshold is assigned unless a pair of
\* at least its IoU holds its detection or its track, and a global maximum
\* at or above the threshold is the IoU of an assigned pair.
AssignedBestFirst(m, assigned) ==
    /\ \A c \in LastCells :
          RLeq(iou_threshold, m[c[1]][c[2]]) =>
              \/ c \in assigned
              \/ \E a \in assigned :
                    (a[1] = c[1] \/ a[2] = c[2]) /\ RLeq(m[c[1]][c[2]], m[a[1]][a[2]])
    /\ \A c \in LastCells :
          ( /\ RLeq(iou_threshold, m[c[1]][c[2]])
            /\ \A e \in LastCells : RLeq(m[e[1]][e[2]], m[c[1]][c[2]]) )
              => \E a \in assigned : m[a[1]][a[2]] = m[c[1]][c[2]]

\* C33: greedy association assigns pairs in non-increasing IoU order starting
\* with the global maximum, and its result is maximal: after Matcher.match
\* there is no detection left unassigned together with a track left
\* unassigned whose IoU is >= iou_threshold.
C33_GreedyBestFirstAndMaximal ==
    (frame_no > 0 /\ LastCells # {}) =>
        \E m \in {LastMatrix}, assigned \in {AssignedCells} :
            Maximal(m, assigned) /\ AssignedBestFirst(m, assigned)

\* C33 witness: two detections and two tracks, a pair assigned, and a cell at
\* or above the threshold that was not assigned because a pair of larger IoU
\* held its detection or its track.
C33_Witness ==
    /\ frame_no > 0
    /\ Len(LastDets) = 2 /\ Len(pre.tracks) = 2
    /\ \E m \in {LastMatrix} :
          \E c \in LastCells \ AssignedCells :
              /\ RLeq(iou_threshold, m[c[1]][c[2]])
              /\ \E a \in AssignedCells :
                    (a[1] = c[1] \/ a[2] = c[2]) /\ RLess(m[c[1]][c[2]], m[a[1]][a[2]])

----------------------------------------------------------------------------
(* Properties of concurrent mutations of the sync store.                   *)

\* The record of camera c differs after the step.
RecordChanged(c) ==
    \/ (c \in DOMAIN file) # (c \in DOMAIN file')
    \/ c \in DOMAIN file /\ c \in DOMAIN file' /\ file[c] # file'[c]

\* The step completes a mutation for camera c.
CompletesOn(c) ==
    \E p \in Callers :
        pending[p] # NoCall /\ pending[p].camera_id = c /\ pending'[p] = NoCall

\* C34: under any interleaving of read-modify-write mutations issued by two
\* processes for two distinct cameras (and of readers), a completed mutation
\* of one camera's record is never lost, reverted or deleted by the other
\* process: a camera's record changes only through operations on that camera.
C34_RecordChangesOnlyByOwnOps ==
    [][\A c \in Cameras : RecordChanged(c) => CompletesOn(c)]_vars

\* Without a call completing while another is under way, it does.
RecordChangesOnlyByOwnOpsUnlessRaced ==
    [][~raced' => \A c \in Cameras : RecordChanged(c) => CompletesOn(c)]_vars

----------------------------------------------------------------------------
(* Properties of the termination of Tracker.update.                        *)

\* C35: Tracker.update terminates without raising for every finite detection
\* list (including the empty list and zero-area boxes), every track set
\* (including the empty one) and every iou_threshold in [0, 1], including
\* iou_threshold = 0: the loop of Matcher.match, the one place where the call
\* can stay, is left.
C35_UpdateTerminates == (matcher.pc = "loop") ~> (matcher.pc = "matched")

\* With a threshold above 0 the loop is always left.
UpdateTerminatesAboveZero ==
    (matcher.pc = "loop" /\ RLess(RZero, iou_threshold)) ~> (matcher.pc = "matched")

\* The loop taken turn by turn returns what Matcher.match returns.
TurnsGiveMatch ==
    (matcher.pc = "matched" /\ RLess(RZero, iou_threshold)) =>
        matcher.mapping = match([i \in 1..Len(matcher.dets) |-> BoxOf(matcher.dets[i])],
                                objs, tracks, use_prediction, iou_threshold)

\* At threshold 0 the loop has zeroed every cell and goes on.
LoopsOnZeroMatrix ==
    /\ matcher.pc = "loop"
    /\ iou_threshold = RZero
    /\ \A i \in DOMAIN matcher.iou_matrix : \A j \in DOMAIN matcher.iou_matrix[i] :
          matcher.iou_matrix[i][j] = RZero

----------------------------------------------------------------------------
(* Properties of the sync-store key a pipeline's worker writes.            *)

\* The driver of this run registers, heartbeats and stops a key.
HasOwnKey == pipeline_camera_id # None

\* C36: the tracks produced by the worker of the camera with id c are saved
\* to the sync-store record with key c, the key the driver registers,
\* heartbeats and marks stopped: once the worker has processed a frame, the
\* only key written is c and no camera writes to another key.
C36_WorkerSavesUnderOwnKey ==
    (HasOwnKey /\ process_no > 0) =>
        /\ pipeline_camera_id \in DOMAIN file
        /\ DOMAIN file \subseteq {pipeline_camera_id}

\* The worker saves under DEFAULT_CAMERA_ID, whatever the camera of the run.
WorkerSavesUnderDefault ==
    process_no > 0 => DEFAULT_CAMERA_ID \in DOMAIN file

\* The record of another camera id never holds a track.
OtherKeyHasNoTracks ==
    (HasOwnKey /\ pipeline_camera_id # DEFAULT_CAMERA_ID
        /\ pipeline_camera_id \in DOMAIN file) =>
        Get(file[pipeline_camera_id], "tracks", <<>>) = <<>>

\* The worker of camera cam1 has saved a track, and it is under the key default.
SavedUnderDefault ==
    /\ pipeline_camera_id = "cam1"
    /\ process_no > 0
    /\ DEFAULT_CAMERA_ID \in DOMAIN file
    /\ Get(file[DEFAULT_CAMERA_ID], "tracks", <<>>) # <<>>

\* The run ended at the construction of its worker.
WorkerNotBuilt ==
    /\ pc_driver = "raised"
    /\ pc_worker # "loop"
    /\ process_no = 0

----------------------------------------------------------------------------
(* Properties of the order in which the worker takes the frames.           *)

\* The step is a _get_frame that returned a frame.
TakesFrame == pc_worker = "get" /\ pc_worker' = "track"

\* C37: the worker takes frames in submission order and each frame at most
\* once: the slot never holds more than one frame, and a frame the worker
\* takes was not taken before and was submitted after every frame taken so far.
C37_FramesTakenInOrderOnce ==
    [][/\ Len(queue_slot) <= 1
       /\ Len(queue_slot') <= 1
       /\ TakesFrame =>
            /\ w_frame'.n \notin taken
            /\ \A m \in taken : m < w_frame'.n
            /\ taken' = taken \cup {w_frame'.n}]_vars

\* The worker has taken the first frame and then the second.
C37_Witness ==
    /\ taken = {1, 2}
    /\ w_frame.n = 2
    /\ pc_worker = "track"

\* The worker has taken the second frame and never the first.
SkippedFrame ==
    /\ taken = {2}
    /\ w_frame.n = 2

----------------------------------------------------------------------------
(* Properties of the classes that reach the activity log and the sync file. *)

\* The activities the classifier gives a class that is logged.
ActivitiesOf(class) ==
    IF class = "person" THEN {"standing", "moving"}
    ELSE IF class = "train" THEN {"stopped", "moving"}
    ELSE {}

\* The tracks saved under the worker's key of the sync file.
SavedTracks == IF DEFAULT_CAMERA_ID \in DOMAIN file
               THEN Get(file[DEFAULT_CAMERA_ID], "tracks", <<>>) ELSE <<>>

\* C38: every record written to the activity log has class person or train
\* and an activity of that class (standing or moving for a person, stopped or
\* moving for a train); a track of another class (car, bus, truck, unresolved)
\* is in no log_activity call and in no list of tracks saved to the sync store.
C38_OnlyPersonAndTrainLogged ==
    /\ \A i \in DOMAIN logs :
          /\ logs[i].class \in {"person", "train"}
          /\ logs[i].activity \in ActivitiesOf(logs[i].class)
    /\ \A i \in DOMAIN log_calls :
          \A id \in DOMAIN objs :
              (id = log_calls[i].track_id /\ log_calls[i].n = process_no)
                  => objs[id].cls_name \in {"person", "train"}
    /\ \A i \in DOMAIN SavedTracks :
          /\ SavedTracks[i].class_name \in {"person", "train"}
          /\ \A id \in DOMAIN objs :
                id = SavedTracks[i].track_id => objs[id].cls_name \in {"person", "train"}

\* A person and a train are in the log and in the saved tracks while a car,
\* classified as stopped, is tracked.
C38_Witness ==
    /\ \E i \in DOMAIN logs : logs[i].class = "person"
    /\ \E i \in DOMAIN logs : logs[i].class = "train"
    /\ \E i \in DOMAIN SavedTracks : SavedTracks[i].class_name = "train"
    /\ \E id \in Range(tracks) :
          /\ objs[id].cls_name = "car"
          /\ objs[id].activity = "stopped"

----------------------------------------------------------------------------
(* The tracker with a long history: a Tracker fed one and the same         *)
(* detection for many frames, then fed arbitrary frames.                   *)

\* The frames fed after the warm-up.
MaxCapFrames == 4

\* The number of warm-up frames: the history reaches max_history within the
\* frames that follow.
WarmFrames == max_history - 2

HistoryInputs == {<<>>, <<DetA>>, <<DetB>>}

InitHistorySpec ==
    /\ \E up \in BOOLEAN : InitTracker(MaxLost, up)
    /\ InitStore
    /\ InitPipeline(NoRun)
    /\ InitLog
    /\ InitManager(NoArgs, MissingFile, "unused")
    /\ InitApi
    /\ InitConfig(FALSE, default_coverage)
    /\ InitMatcher
    /\ now = StartTime

\* Tracker.update(detections) with the detection of every warm-up frame.
WarmUpdate ==
    /\ frame_no < WarmFrames
    /\ Updated(<<DetA>>)

\* Tracker.update(detections), after the warm-up.
HistoryUpdate(detections) ==
    /\ frame_no >= WarmFrames
    /\ frame_no < WarmFrames + MaxCapFrames
    /\ Updated(detections)

NextHistory ==
    \/ WarmUpdate
    \/ \E detections \in HistoryInputs : HistoryUpdate(detections)

SpecHistory == InitHistorySpec /\ [][NextHistory]_vars

----------------------------------------------------------------------------
(* Properties of the history of a track.                                   *)

\* The call now returning matched the track to a detection.
MatchedNow(id) == \E p \in last_mapping' : p[2] = id

\* The call now returning moved the unmatched track by its velocity.
PredictedNow(id) ==
    /\ ~MatchedNow(id)
    /\ use_prediction
    /\ objs'[id].lost_frames <= max_lost

\* The history h with the point c appended, the oldest point dropped beyond
\* max_history.
AppendedCapped(h, c) ==
    IF Len(h) < max_history THEN Append(h, c) ELSE Append(Tail(h), c)

\* C39: after every Tracker.update call the history of every track has
\* between 1 and 50 entries; a match or a prediction step appends exactly one
\* point, the center of the track's box, at the end, and when the length would
\* exceed 50 the oldest entry is the one dropped.
C39_HistoryBoundedOldestDropped ==
    [][/\ \A id \in Range(tracks') :
             /\ Len(objs'[id].history) >= 1
             /\ Len(objs'[id].history) <= max_history
       /\ \A id \in Range(tracks) \cap Range(tracks') :
             (MatchedNow(id) \/ PredictedNow(id)) =>
                 objs'[id].history =
                     AppendedCapped(objs[id].history, center(objs'[id].bbox))]_vars

\* A track neither matched nor predicted keeps its history.
HistoryKeptOtherwise ==
    [][\A id \in Range(tracks) \cap Range(tracks') :
          ~(MatchedNow(id) \/ PredictedNow(id)) =>
              objs'[id].history = objs[id].history]_vars

\* A track matched more than max_history times has max_history points, the
\* last one the center of DetB.
C39_Witness ==
    /\ \E id \in Range(tracks) :
          /\ objs[id].hits > max_history
          /\ Len(objs[id].history) = max_history
          /\ objs[id].history[max_history] = center(BoxOf(DetB))
          /\ objs[id].history[1] = center(BoxOf(DetA))

\* A track at max_history points was moved by a prediction step.
PredictedAtCap ==
    /\ use_prediction
    /\ \E id \in Range(tracks) :
          /\ objs[id].lost_frames > 0
          /\ objs[id].hits >= max_history
          /\ Len(objs[id].history) = max_history

----------------------------------------------------------------------------
(* Properties of the velocity of a track with a short history.             *)

\* The tracks whose history has fewer than 2 points.
ShortHistoryTracks == {id \in Range(tracks) : Len(objs[id].history) < 2}

\* C40: after every Tracker.update call, every track whose history has fewer
\* than 2 entries has velocity (0, 0), with use_prediction true and with
\* use_prediction false.
C40_ShortHistoryHasZeroVelocity ==
    frame_no > 0 =>
        \A id \in ShortHistoryTracks : objs[id].velocity = <<RZero, RZero>>

\* An update without prediction has returned a track with one point, at rest,
\* next to a track with a velocity.
C40_Witness ==
    /\ frame_no > 0
    /\ ~use_prediction
    /\ \E id \in ShortHistoryTracks : objs[id].velocity = <<RZero, RZero>>
    /\ \E id \in Range(tracks) : objs[id].velocity # <<RZero, RZero>>

\* With prediction every track an update returns has at least 2 points: the
\* track created by the call is aged, and moved, in the same call.
NoShortHistoryWithPrediction ==
    (frame_no > 0 /\ use_prediction) => ShortHistoryTracks = {}

====
